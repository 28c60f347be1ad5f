------------------------------- MODULE MCVfs --------------------------------
(* Blocks of 4 bytes and a table of three files; archives with a file of   *)
(* three blocks, an empty one, two of one name, a directory, one file too  *)
(* many, a size that fills its field, and no end.                          *)
EXTENDS Vfs

File(name, size, digits) == [name |-> name, size |-> size, digits |-> digits, dir |-> FALSE]
Dir(name) == [name |-> name, size |-> 0, digits |-> <<0, NUL, NUL>>, dir |-> TRUE]

DataBlocks(f) == (f.size + TAR_BLOCK_SIZE - 1) \div TAR_BLOCK_SIZE

(* The image of a list of files: the blocks one after the other. *)
Pack(files, ended) ==
  LET image == FoldLeft(LAMBDA s, i :
                 LET f == files[i]
                 IN  s \o <<Header(f.name, f.digits, IF f.dir THEN "5" ELSE "0")>>
                       \o [k \in 1 .. DataBlocks(f) |-> Data(i, k - 1)],
                 <<>>, [i \in DOMAIN files |-> i])
      all == IF ended THEN image \o <<Zeros, Zeros>> ELSE image
  IN  [files |-> files, ended |-> ended,
       mem |-> [a \in {TAR_BLOCK_SIZE * k : k \in 0 .. (Len(all) - 1)} |->
                  all[(a \div TAR_BLOCK_SIZE) + 1]]]

f == <<"f">>
g == <<"g">>

MCArchives ==
  {Pack(<<File(f, 5, <<0, 0, 5>>), Dir(<<"d">>), File(g, 9, <<1, 1, NUL>>),
          File(g, 1, <<1, NUL, NUL>>)>>, TRUE),
   Pack(<<File(f, 0, <<0, NUL, NUL>>)>>, FALSE)}

MCPaths == {<<"/", "dev", "/", "kbd">>, <<"/", "dev", "/", "console">>,
            <<"/", "dev", "/", "nope">>, <<"/", "/", "g">>,
            <<"random">>, <<"/", "mnt", "/", "d">>, NullPath}

MCReadSizes == {6, -1}

MCEntries == {[device |-> "cd", target |-> <<"/", "mnt">>, fs |-> "ustar"],
              [device |-> "cd", target |-> <<"/", "x">>, fs |-> "ext2"],
              [device |-> "devfs", target |-> <<"/">>, fs |-> "devfs"]}
=============================================================================
