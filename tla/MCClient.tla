------------------------------- MODULE MCClient -------------------------------
(* Small instances of Client for TLC. *)
EXTENDS Client

AllTexts == {"", "ann", "bob", "secret"}
NoTexts  == {}

Form(texts) == [i \in DOMAIN texts |-> Field(texts[i], FALSE)]

\* The commands.  One the server does not know it meets when a form reaches it
\* while it waits for a command.
Typed == {Command(name) : name \in {"register", "login", "logout", "get image",
                                    "exit"}}

\* A complete form, and one without a surname.
Registrations ==
    {Form(<<"ann", "secret", "ann", "bob", "bob">>),
     Form(<<"ann", "secret", "ann", "", "bob">>)}

Logins == {Form(<<"ann", "secret">>), Form(<<"", "secret">>)}

=============================================================================
