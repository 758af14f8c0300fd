--------------------------- MODULE MCVerifiedFeed ----------------------------
(* Two pairs, so that one pass can write on both sides of a download, and a *)
(* pass next to the admin's rescans, so that an early date can replace a    *)
(* later one.                                                               *)
EXTENDS VerifiedFeed
===============================================================================
