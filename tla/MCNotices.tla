------------------------------ MODULE MCNotices ------------------------------
(***************************************************************************)
(* A small instance of Notices.                                            *)
(***************************************************************************)
EXTENDS Notices

CONSTANTS p1, p2

\* A phone that is a customer's and the second administrator's, and the first
\* administrator's.
TwoPhones == {p1, p2}
TwoAdmins == <<p2, p1>>

\* One page that reads tokens at a time, and none while a getToken fails.  The
\* checkout page and the page of orders change nothing that the other, or a
\* device, reads, and a getToken that fails changes nothing they read: each
\* one's steps are interleaved with those of the devices, which is all that
\* matters.
OneReader ==
    /\ checkout = NoCheckout \/ desk = NoDesk
    /\ lost # {} => checkout = NoCheckout /\ desk = NoDesk
=============================================================================
