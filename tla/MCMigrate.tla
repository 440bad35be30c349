----------------------------- MODULE MCMigrate -----------------------------
(* The four migrations of the repository.                                   *)
EXTENDS Migrate, MigrationFiles

MCLast == Len(UpFiles)
MCNeeds == [v \in Version |-> UpFiles[v].needs]
MCDownNeeds == [v \in Version |-> DownFiles[v].needs]
MCBlocks == [v \in Version |-> DownFiles[v].blocks]
MCTakes == [v \in Version |-> DownFiles[v].takes]
MCRepeatable == {v \in Version : UpFiles[v].repeatable}
MCFragile == {<<v, "up">> : v \in {w \in Version : UpFiles[w].fragile}}
                \cup {<<v, "down">> : v \in {w \in Version : DownFiles[w].fragile}}
=============================================================================
