---------------------------- MODULE MCHashReview ----------------------------
(* The instance of HashReview that TLC checks: two keys and two hashes, so  *)
(* that what a review shows can be of another request.                      *)
EXTENDS HashReview
=============================================================================
