--------------------------- MODULE MigrationFiles ---------------------------
(* The migrations of the repository, one definition per file of migrations/.*)
(*   needs       the versions that must be there for the file to run        *)
(*   blocks      the versions whose presence makes it fail                  *)
(*   takes       the later versions whose changes go with a table it drops  *)
(*   repeatable  it runs again where its changes are there already          *)
(*   fragile     there may be rows that make it fail                        *)
EXTENDS Sequences

\* Tables and types are made anew and lean on nothing.
CoreTablesUp == [needs |-> {}, repeatable |-> FALSE, fragile |-> FALSE]

\* password_reset_tokens references users: without CASCADE, users cannot go
\* before it.  The columns and indexes of 3 and 4 go with their tables.
CoreTablesDown == [needs |-> {}, blocks |-> {2}, takes |-> {3, 4}, fragile |-> FALSE]

PasswordResetTokensUp == [needs |-> {1}, repeatable |-> FALSE, fragile |-> FALSE]

\* The index that 4 put on the table goes with it.  What is left of 4 cannot hurt:
\* 4 stays recorded, and is applied again only after its own down file.
PasswordResetTokensDown == [needs |-> {}, blocks |-> {}, takes |-> {4}, fragile |-> FALSE]

\* A column may get the type that it has.
WidenListingPriceUp == [needs |-> {1}, repeatable |-> TRUE, fragile |-> FALSE]

\* ALTER TABLE has no IF EXISTS here; "Fails if any price exceeds 99,999,999.99".
WidenListingPriceDown == [needs |-> {1}, blocks |-> {}, takes |-> {}, fragile |-> TRUE]

\* A column of users, an index on its addresses, one on both kinds of tokens;
\* "If two rows already differ only by case this UPDATE fails".
TokenRevocationUp == [needs |-> {1, 2}, repeatable |-> FALSE, fragile |-> TRUE]

\* DROP COLUMN has IF EXISTS, ALTER TABLE has not.
TokenRevocationDown == [needs |-> {1}, blocks |-> {}, takes |-> {}, fragile |-> FALSE]

UpFiles == <<CoreTablesUp, PasswordResetTokensUp, WidenListingPriceUp, TokenRevocationUp>>

DownFiles == <<CoreTablesDown, PasswordResetTokensDown, WidenListingPriceDown, TokenRevocationDown>>
=============================================================================
