--------------------------- MODULE MCAdminConsole ---------------------------
EXTENDS AdminConsole, TLC

CONSTANTS admin, carol, r1, r2

\* Both registrants want the same name.
SameName == [r \in Registrants |-> carol]

OneUser == {{carol}}

RegistrantSymmetry == Permutations(Registrants)

=============================================================================
