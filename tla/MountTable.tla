----------------------------- MODULE MountTable -----------------------------
(***************************************************************************)
(* What the mount list promises the processes that walk it: a table of     *)
(* complete entries, in the order they were mounted, that changes by one   *)
(* whole entry at a time.  Vfs implements this specification.              *)
(***************************************************************************)
EXTENDS SequencesExt

CONSTANT Entries  \* what can be mounted: records with a device and a target

VARIABLE table

TableInit == table = <<>>

Mount(t, u) == \E e \in Entries : u = Append(t, e)

(* The first entry that bears a device or a target goes. *)
Unmount(t, u) ==
  \E i \in DOMAIN t :
    /\ \/ \A j \in 1 .. (i - 1) : t[j].device # t[i].device
       \/ \A j \in 1 .. (i - 1) : t[j].target # t[i].target
    /\ u = RemoveAt(t, i)

(* The table t becomes u. *)
TableNext == \E t \in {table}, u \in {table'} : Mount(t, u) \/ Unmount(t, u)

TableSpec == TableInit /\ [][TableNext]_table
=============================================================================
