---------------------------- MODULE MCAutoLinks ----------------------------
EXTENDS AutoLinks, TLC
CONSTANTS a1, b1, m1
Keys    == (a1 :> "ka") @@ (b1 :> "kb") @@ (m1 :> None)
Groups  == ("ka" :> {"ka"}) @@ ("kb" :> {"kb"}) @@ (None :> {})
Spaces  == (a1 :> "w1") @@ (b1 :> None) @@ (m1 :> "w2")
Cases   == (a1 :> "c1") @@ (b1 :> "c2") @@ (m1 :> "c1")
Topics  == [f \in Frags |-> "t"]
Similar == {<<a1, b1>>, <<a1, m1>>, <<b1, m1>>}
Close   == {<<a1, b1>>}
Asked   == (a1 :> {}) @@ (b1 :> {a1}) @@ (m1 :> {})
Settings == {[mode |-> "off", claims |-> TRUE, gate |-> FALSE], [mode |-> "auto", claims |-> TRUE, gate |-> TRUE],
             [mode |-> "auto", claims |-> FALSE, gate |-> FALSE]}
Markers == (a1 :> "uses") @@ (b1 :> None) @@ (m1 :> "forbids")
=============================================================================
