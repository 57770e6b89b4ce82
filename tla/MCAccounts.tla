------------------------------ MODULE MCAccounts ------------------------------
(* Small instances of Accounts for TLC. *)
EXTENDS Accounts, TLC

AllTexts == {"", "ann", "bob", "secret"}
NoTexts  == {}

\* The same email registered and looked up, with and without a blank after it.
AccountLines ==
    {Command("register"), Command("login"),
     <<Field("ann", FALSE), Field("secret", FALSE), Field("ann", FALSE),
       Field("bob", FALSE), Field("", TRUE)>>,
     <<Field("ann", FALSE), Field("secret", FALSE)>>,
     <<Field("ann", TRUE), Field("secret", FALSE)>>}

Symmetry == Permutations(Sessions)

=============================================================================
