----------------------------- MODULE Namespace -----------------------------
(***************************************************************************)
(* What a file system client is to see of the directories, whatever the    *)
(* other clients do: each directory maps names to inums, a name is entered *)
(* once, with an inum that no entry has, and only a file's name is         *)
(* removed, alone.                                                         *)
(***************************************************************************)
CONSTANTS Names, Dirs, Files, Root

VARIABLE dirs   \* for each directory that exists, its map from names to inums

Inums == Dirs \cup Files

Listed == UNION {{dirs[d][n] : n \in DOMAIN dirs[d]} : d \in DOMAIN dirs}
NoNames == [n \in {} |-> Root]

Init == dirs = [d \in {Root} |-> NoNames]

Enter(d, n, i) ==
  /\ n \notin DOMAIN dirs[d] /\ i \notin Listed \cup {Root}
  /\ dirs' = [x \in DOMAIN dirs \cup ({i} \cap Dirs) |->
                IF x = d THEN [m \in DOMAIN dirs[d] \cup {n} |->
                                 IF m = n THEN i ELSE dirs[d][m]]
                ELSE IF x = i THEN NoNames ELSE dirs[x]]

Remove(d, n) ==
  /\ n \in DOMAIN dirs[d] /\ dirs[d][n] \in Files
  /\ dirs' = [dirs EXCEPT ![d] = [m \in DOMAIN @ \ {n} |-> @[m]]]

Next ==
  \E d \in DOMAIN dirs, n \in Names :
    Remove(d, n) \/ \E i \in Inums : Enter(d, n, i)

Spec == Init /\ [][Next]_dirs
=============================================================================
