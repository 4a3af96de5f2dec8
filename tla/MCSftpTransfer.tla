-------------------------- MODULE MCSftpTransfer --------------------------
(* The copies that are checked: all kinds, onto nothing, onto a partial     *)
(* copy (resumed) and onto a longer file (in place); servers that answer in *)
(* order or not, and that answer short or not.                              *)
EXTENDS SftpTransfer

MCConfs ==
  {k \in [dir : {"get", "put", "cross"}, resume : BOOLEAN, inplace : BOOLEAN, sized : BOOLEAN,
          old : {0, 1, Size, Size + 1}, maxread : {1, Buflen}, reorder : BOOLEAN] :
     /\ k.resume => k.old <= Size /\ ~k.inplace
     /\ k.inplace => k.old = Size + 1
     /\ ~k.resume /\ ~k.inplace => k.old = 0
     /\ k.dir = "cross" => ~k.resume /\ ~k.inplace
     /\ k.dir = "put" => k.sized /\ k.maxread = Buflen}

\* uploads to a server like OpenSSH's own
Uploads == {k \in MCConfs : k.dir = "put" /\ ~k.reorder}
===========================================================================
