------------------------------ MODULE MCSession ------------------------------
(* Small instances of Session for TLC. *)
EXTENDS Session, TLC

Plain(text)  == Field(text, FALSE)
Padded(text) == Field(text, TRUE)

AllTexts == {"", "ann", "bob", "secret", "o'neil"}
NoTexts  == {}
WithApostrophe == {"o'neil"}

Registration(email, surname) ==
    <<Plain(email), Plain("secret"), Plain("ann"), Plain(surname), Padded("")>>

\* The surname has an apostrophe.
QuotedLines == {Command("register"), Registration("ann", "o'neil")}

=============================================================================
