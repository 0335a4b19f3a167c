-------------------------------- MODULE MCFs --------------------------------
(* Two processes on the images of two argument lists: a shell that needs the
   indirect block, and as many files as fill the root's first block.  One name
   that open is called with is that of an unused entry, "". *)
EXTENDS Fs
CONSTANTS p1, p2
Procs  == {p1, p2}
File(n, s) == [name |-> n, size |-> s]
Shell  == <<File("sh", 16)>>
FullBlock == <<File("sh", 1), File("ls", 6)>>
Images == {Shell, FullBlock}
Opened == {"", "console"}
Executed == {"sh"}
Made   == {"sh"}
Nodes  == {"console"}
Majors == {1}
=============================================================================
