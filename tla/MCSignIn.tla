------------------------------ MODULE MCSignIn ------------------------------
(* The owner, a listed colleague and two others.                           *)
EXTENDS SignIn
CONSTANTS owner, colleague, ana, ben
=============================================================================
