------------------------------- MODULE MCSignIn -------------------------------
(* Two tabs of one browser: one gets to every form, the other to two.           *)
EXTENDS SignIn, TLC

CONSTANTS t1, t2
MCForms ==
  (t1 :> {"home", "password", "request", "register", "apply", "forgot", "force", "profile"}) @@
  (t2 :> {"home", "password"})
==============================================================================
