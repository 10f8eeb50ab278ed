---------------------------- MODULE MCFlutterCart ----------------------------
(***************************************************************************)
(* Small instances of FlutterCart, and what must eventually become of      *)
(* every cart of such an instance.                                         *)
(***************************************************************************)
EXTENDS FlutterCart, TLC

\* Every cart of at most one line, once shown, reaches the file as long as the
\* process lives.  A line keeps the productId it was added under, so the only
\* line left may have that of any place in the longest cart.
EveryCartReachesDisk ==
    \A c \in {<< >>} \cup {<<line>> :
                   line \in [productId : 0 .. Cardinality(Titles) - 1,
                             productTitle : Titles, quantity : 1 .. MaxQuantity,
                             price : Prices]} :
        phase = "running" /\ cart = c ~> phase # "running" \/ diskCart = c
=============================================================================
