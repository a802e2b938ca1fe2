--------------------------- MODULE MCTokenBucket ---------------------------
(* TokenBucket on a small instance: a sign-up or log-in asks the bucket of its *)
(* address and that of its e-mail address; another one has the same address.   *)
EXTENDS TokenBucket

Both == {"ip", "email"}
SignIns == {"first", "second"}
SignInAsks == [q \in SignIns |-> IF q = "first" THEN <<"ip", "email">> ELSE <<"ip">>]
=============================================================================
