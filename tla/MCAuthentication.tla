-------------------------- MODULE MCAuthentication --------------------------
(* TLC's instance of Authentication. *)
EXTENDS Authentication, TLC

\* Sign-in by phone, the sessions of one account, and the two together.
MCWorkloads ==
  { {"register_phone", "verify_otp"},
    {"register_email", "login_email", "refresh_token", "logout", "logout_all",
     "disable", "expire"} }

Symmetric == Permutations(Requests) \cup Permutations(Tokens) \cup Permutations(Codes)

=============================================================================
