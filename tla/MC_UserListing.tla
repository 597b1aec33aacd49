----------------------------- MODULE MC_UserListing -----------------------------
(***************************************************************************)
(* Three users who sign up over the run, two lagging replicas, and client  *)
(* queries from page 1 with zero, one or two users per page (or the       *)
(* default 10), so that a walk takes up to four pages and users sign up    *)
(* between them; a walk of ?per_page=0 pages on to MaxPage and stops there.*)
(* usize is 64 bits; TLC's integers are not, and no offset here comes     *)
(* near 2^30, the width the runs use.                                     *)
(***************************************************************************)
EXTENDS UserListing

MC_PageInputs      == {NULL, 0, 1}
MC_PerPageInputs   == {NULL, 0, 1, 2}
MC_OrderByInputs   == {Absent, "CREATED_AT", "updated_at", "email"}
MC_DirectionInputs == {Absent, "ASC", "sideways"}
MC_DirectionInputsDesc == {"DESC"}
MC_Names           == {NULL}
====
