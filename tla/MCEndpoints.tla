------------------------------ MODULE MCEndpoints ------------------------------
(* Texts and symmetry for the runs of Endpoints.                             *)
EXTENDS Endpoints, TLC

Ascii(n, ps) == [bytes |-> n, chars |-> n, matches |-> ps]

\* "x", "a_user", "auser": a name that only gin takes, being too short for gapi,
\* one that only gapi takes, and one that both take.
MCUsernames == {Ascii(1, {"alphanum", "full_name", "username"}), Ascii(6, {"username"}),
                Ascii(5, {"alphanum", "full_name", "username"})}

\* Too short, six characters, six bytes only, a byte more than bcrypt takes, too
\* long.
MCPasswords == {Ascii(5, {}), Ascii(6, {}), [bytes |-> 6, chars |-> 2, matches |-> {}],
                Ascii(73, {}), Ascii(101, {})}

\* The longest password there can be, and one that begins with it.
LongPasswords == {Ascii(72, {}), Ascii(73, {})}

\* "Ann Onym", and one with a digit.
MCFullNames == {Ascii(8, {"full_name"}), Ascii(9, {})}

\* An address, one with a display name that only package val takes, and none.
MCEmails == {Ascii(9, {"address", "email"}), Ascii(15, {"address"}), Ascii(9, {})}

Symmetry == Permutations(Calls)
===============================================================================
