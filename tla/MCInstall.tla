----------------------------- MODULE MCInstall -----------------------------
(* Small devices for Install: a disk, a FAT32 and an NTFS partition, some   *)
(* shorter than the record, with the blobs embedded or left out.            *)
EXTENDS Install, TLC

(* The sectors of the formatter, and of each blob, told apart by a name. *)
Made(by) == [r \in Regions |-> IF r = "mark" THEN Marked ELSE <<by>>]
Formatted(n) == [i \in 1..n |-> Made(<<"format", "fsinfo", "sector 2", "sector 3", "data">>[i])]
Device(kind, n, buffered) == [kind |-> kind, sectors |-> Formatted(n), buffered |-> buffered]

MCDevices == {Device("disk", 2, TRUE), Device("fat32", 4, TRUE), Device("fat32", 1, FALSE),
              Device("fat32", 2, FALSE), Device("ntfs", 5, FALSE), Device("ntfs", 4, TRUE)}

Blob(v) ==
  CASE v \in MbrVariants -> Bytes(SectorSize, <<Made(v)>>)
    [] v \in Fat32Variants -> Bytes(2 * SectorSize, <<Made(v), Made(v)>>)
    [] v \in NtfsVariants -> Bytes(3 * SectorSize, <<Made(v), Made(v), Made(v)>>)
Embedded == [v \in Variants |-> Blob(v)]
NotEmbedded == [v \in Variants |-> Bytes(0, <<>>)]
MCBuilds == {Embedded, NotEmbedded}

Invocations == Permutations(Procs)
MCContent == {Marked, Mswin, DeadBeef} \cup {<<v>> : v \in Variants}
             \cup {<<"format">>, <<"fsinfo">>, <<"sector 2">>, <<"sector 3">>, <<"data">>}
=============================================================================
