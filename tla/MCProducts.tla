----------------------------- MODULE MCProducts -----------------------------
(***************************************************************************)
(* An instance of Products, explored in two parts: what happens on the     *)
(* page that adds products, while nobody looks at one, and what happens on *)
(* the pages that show them.                                               *)
(***************************************************************************)
EXTENDS Products, TLC

Symmetry == Permutations(Titles)

\* Products without a price are added while uploads fail, overlap and lose
\* their page; with a hasty or hurried administrator, who is not both, there is
\* one title besides the empty one.
AddPageOnly ==
    /\ \A d \in Devices : page[d] # "product" /\ chosen[d] = None
    /\ \A a \in Admins : draft[a].price = 0
    /\ \A v \in versions : v.product.price = 0
    /\ ~ (hasty /\ hurried)
    /\ hasty \/ hurried =>
          \E t \in Titles :
             /\ \A v \in versions : v.title = t
             /\ \A a \in Admins :
                   /\ draft[a].title \in {None, t}
                   /\ \A i \in DOMAIN uploads[a] :
                         {uploads[a][i].file, uploads[a][i].draft.title} \subseteq {None, t}

\* Products are added one after the other, with every field filled in, by an
\* administrator who waits for the frame and the upload, which never fails,
\* and buys nothing; a customer buys one.  Only a save empties a price.
OneCustomer ==
    /\ ~ hasty /\ ~ hurried
    /\ \A v \in versions : \E w \in versions : w.title = v.title /\ w.product.price # 0
    /\ \A f \in storage : \/ \E v \in versions : v.title = f
                          \/ \E a \in Admins : uploads[a] # << >> /\ uploads[a][1].file = f
    /\ \A a \in Admins :
          /\ draft[a].title # None <=> draft[a].price # 0
          /\ a \notin picked => draft[a] = BlankDraft /\ versions = {}
          /\ draft[a].loading <=> uploads[a] # << >>
          /\ uploads[a] # << >> =>
                /\ page[a] = "add"
                /\ uploads[a][1].live /\ uploads[a][1].state = 1
                /\ uploads[a][1].sent => a \in spinning
          /\ a \in spinning => page[a] = "add" /\ (draft[a].loading \/ draft[a] = BlankDraft)
          /\ bought[a] = << >>
    /\ \A d \in Devices : \A s, t \in DOMAIN bought[d] : s = t

EitherPage == AddPageOnly \/ OneCustomer
=============================================================================
