--------------------------- MODULE MCXpSetupChain ---------------------------
(* Requests for XpSetupChain, with the segments and limits of the source:   *)
(* whole and fragmented files, lists at and past every limit, drives that   *)
(* answer, refuse and fail.                                                 *)
EXTENDS XpSetupChain, TLC

IvtToCode == (0..79) \cup (1968..2015)     \* 0..4FFh, 7B00h..7DFFh

Run(start, count) == [start |-> start, count |-> count]
Extent(hidd, r) == [k \in 1..r.count |-> hidd + r.start + k - 1]
FileOf(hidd, list) ==
  LET upto[i \in 0..Len(list)] == IF i = 0 THEN <<>> ELSE upto[i - 1] \o Extent(hidd, list[i])
  IN  upto[Len(list)]
Offsets(list) ==
  LET before[i \in 1..(Len(list) + 1)] ==
        IF i = 1 THEN 0 ELSE before[i - 1] + Iterations(list[i - 1].count)
  IN  before

Drive(probe, reliable, s, h) ==
  [probe |-> probe, reliable |-> reliable, cl |-> 64 + s, dh |-> h - 1,
   spt |-> s, heads |-> h, sectors |-> 30000]
Good == Drive(TRUE, TRUE, 63, 255)

Template == Bytes(SectorSize, <<>>)
Request(segment, list, hidd, drive) ==
  [template |-> Template, marked |-> TRUE, segment |-> segment, runs |-> list,
   hidd |-> hidd, file |-> FileOf(hidd, list), at |-> Offsets(list),
   bios |-> drive]

Lists == { <<Run(9, 1)>>, <<Run(100, 5)>>,
           <<Run(40, 2), Run(10, 3), Run(70, 1)>>,
           [i \in 1..16 |-> Run(300 - 10 * i, 1)] }
Drives == {Drive(p, r, g[1], g[2]) : p \in BOOLEAN, r \in BOOLEAN, g \in {<<18, 2>>}}
          \cup {Drive(TRUE, TRUE, g[1], g[2]) : g \in {<<63, 255>>, <<63, 1>>}}

(* 8192 = 2000h, 80 = 0050h, 36864 = 9000h *)
Usual == {Request(s, l, 63, d) : s \in {80, 8192, 36864}, l \in Lists, d \in Drives}
Largest == {Request(8192, <<Run(0, 1000), Run(2000, 24)>>, 63, Good)}

Sample == Request(8192, <<Run(100, 5)>>, 63, Good)
Refused ==
  {Request(8192, l, 63, Good) :
     l \in {<<>>, [i \in 1..17 |-> Run(10 * i, 1)], <<Run(5, 1000), Run(2000, 25)>>}}
  \cup {Request(s, <<Run(100, 5)>>, 63, Good) : s \in {79, 36865}}
  \cup {[Sample EXCEPT !.marked = FALSE], [Sample EXCEPT !.template = Bytes(0, <<>>)]}

(* As many sectors as fit below 7B00h, below A000h and below the megabyte,  *)
(* and one more: 0050h + 59 * 20h, 9000h + 128 * 20h, 9000h + 896 * 20h.    *)
AtTheEdges == {Request(p[1], <<Run(100, p[2])>>, 63, Good) :
                 p \in {<<80, 59>>, <<80, 60>>, <<36864, 128>>, <<36864, 129>>,
                        <<36864, 896>>, <<36864, 897>>, <<36864, 1024>>, <<36863, 897>>}}

(* A run of no sectors, which LbaRun says must not be; heads that wrap to 0 *)
ZeroCount == {Request(8192, <<Run(100, 0)>>, 63, Good)}
Odd == ZeroCount
       \cup {Request(8192, <<Run(100, 2), Run(50, 0)>>, 63, Good),
             Request(8192, <<Run(100, 5)>>, 63, Drive(TRUE, TRUE, 63, 256))}

MCRequests == Usual \cup Largest \cup Refused \cup AtTheEdges \cup Odd
=============================================================================
