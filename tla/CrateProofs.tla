----------------------------- MODULE CrateProofs -----------------------------
(* What the crate is, proved for any number of blobs, edits and builds: it  *)
(* is not stale, not mixed, not half empty, and its library can install it. *)
EXTENDS Crate, SequenceTheorems, TLAPS

Arith == INSTANCE ChsProofs

(************************** the invariant *******************************)
Pieces == {p \in [file : Files, rev : Nat, len : Int] : p.len \in Lengths(p.file)}

Kinds ==
  /\ file \in [Files -> [rev : Nat, len : Int]] /\ edits \in Nat /\ since \in Nat
  /\ nasm \in [rev : Nat, on : BOOLEAN] /\ embed \in BOOLEAN /\ nasmOk \in BOOLEAN
  /\ \A f \in Files : file[f].rev <= edits /\ file[f].len \in Lengths(f)
  /\ since <= edits
  /\ pc \in {"idle", "script", "compile", "done"}
  /\ todo \in Seq(Names) /\ combined \in Seq(Pieces) /\ printed \in SUBSET Files
  /\ out \in [BOOLEAN -> [Names -> Seq(Pieces)]] /\ lib \in [Names -> Seq(Pieces)]
  /\ tracked \in [BOOLEAN -> SUBSET Files] /\ touched \in [BOOLEAN -> SUBSET Files]
  /\ ran \in [BOOLEAN -> BOOLEAN]

(* A blob of build e is whole: nothing, the prebuilt file, or every source. *)
Stages(b, s) ==
  \A i \in DOMAIN s : /\ s[i].file = <<b, i>> /\ s[i].len \in Nat
                      /\ Parts[b] > 1 => s[i].len > 0 /\ s[i].len % Multiple = 0
Complete(e, b, s) ==
  IF ~e THEN s = <<>>
  ELSE \/ Len(s) = 1 /\ s[1].file = Prebuilt(b) /\ s[1].len \in Nat
       \/ Len(s) = Parts[b] /\ Stages(b, s)

(* What it was made of is as it is now, unless it changed since the build   *)
(* began; and cargo has been told of it, and will notice if it did.         *)
Current(p) == p = Piece(p.file)
Fresh(s) == \A i \in DOMAIN s : file[s[i].file].rev <= since => Current(s[i])
Noticed(e, lines, s) ==
  \A i \in DOMAIN s : s[i].file \in lines /\ (Current(s[i]) \/ s[i].file \in touched[e])

(* Blobs whose sources were never missing were made in the same way, and    *)
(* from the sources if nasm was never missing either.                       *)
Assembly(s) == \E i \in DOMAIN s : s[i].file[2] > 0
SameWay(e, crate) ==
  /\ \A a, b \in Names :
       (SourcesStayed(a) /\ SourcesStayed(b) /\ crate[a] # <<>> /\ crate[b] # <<>>) =>
         (Assembly(crate[a]) <=> Assembly(crate[b]))
  /\ e /\ NasmStayed => \A b \in Names : SourcesStayed(b) => Assembly(crate[b])

Settled(e) ==
  ran[e] /\ ~(pc = "script" /\ embed = e) =>
    /\ \A b \in Names : Complete(e, b, out[e][b]) /\ Noticed(e, tracked[e], out[e][b])
    /\ SameWay(e, out[e])

(* The blobs the script has done, and the one it is at.                     *)
DoneBlob(b, s) ==
  /\ Complete(embed, b, s) /\ Noticed(embed, printed, s) /\ Fresh(s)
  /\ SourcesStayed(b) /\ s # <<>> => (Assembly(s) <=> nasmOk)
Scripting ==
  pc = "script" =>
    /\ todo # <<>>
    /\ \A b \in Names \ ToSet(todo) : DoneBlob(b, out[embed][b])
    /\ Stages(Head(todo), combined) /\ Len(combined) < Parts[Head(todo)]
    /\ Noticed(embed, printed, combined) /\ Fresh(combined)
    /\ combined # <<>> => nasmOk
    /\ embed /\ NasmStayed => nasmOk
Compiling ==
  pc = "compile" => ran[embed] /\ \A b \in Names : Fresh(out[embed][b])
Finished ==
  pc = "done" => /\ \A b \in Names : Complete(embed, b, lib[b]) /\ Fresh(lib[b])
                 /\ SameWay(embed, lib)

IInv == Kinds /\ (\A e \in BOOLEAN : Settled(e)) /\ Scripting /\ Compiling /\ Finished

LEMMA StartsWell == Init => IInv
  <1> SUFFICES ASSUME Init PROVE IInv
    OBVIOUS
  <1> USE BuildAssumption DEF Init
  <1>1. \A f \in Files : Origin[f] \in Int /\ Origin[f] \in Lengths(f)
    BY DEF Lengths, Absent, Broken
  <1>2. file \in [Files -> [rev : Nat, len : Int]]
    BY <1>1
  <1>3. \A f \in Files : file[f].rev <= edits /\ file[f].len \in Lengths(f)
    BY <1>1
  <1>4. Empty \in [Names -> Seq(Pieces)]
    BY DEF Empty
  <1>5. /\ out \in [BOOLEAN -> [Names -> Seq(Pieces)]] /\ lib \in [Names -> Seq(Pieces)]
        /\ todo \in Seq(Names) /\ combined \in Seq(Pieces)
    BY <1>4
  <1>6. Kinds
    <2>1. edits \in Nat /\ since \in Nat /\ since <= edits
      OBVIOUS
    <2>3. PICK m : m = nasm
      OBVIOUS
    <2>4. m \in [rev : {0}, on : BOOLEAN]
      BY <2>3, Zenon
    <2>5. m \in [rev : Nat, on : BOOLEAN]
      BY ONLY <2>4
    <2>6. nasm \in [rev : Nat, on : BOOLEAN]
      BY ONLY <2>3, <2>5
    <2>7. embed \in BOOLEAN /\ nasmOk \in BOOLEAN
      BY Zenon
    <2>. printed \in SUBSET Files /\ pc \in {"idle", "script", "compile", "done"}
      OBVIOUS
    <2>2. /\ tracked \in [BOOLEAN -> SUBSET Files] /\ touched \in [BOOLEAN -> SUBSET Files]
          /\ ran \in [BOOLEAN -> BOOLEAN]
      OBVIOUS
    <2> QED  BY <1>2, <1>3, <1>5, <2>1, <2>2, <2>6, <2>7 DEF Kinds
  <1>7. \A e \in BOOLEAN : Settled(e)
    BY DEF Settled
  <1> QED  BY <1>6, <1>7 DEF IInv, Scripting, Compiling, Finished

(************************ the developer's steps *************************)
(* An edit makes no blob staler than it says, nor hides that it is stale.   *)
LEMMA EditKeeps ==
  ASSUME Kinds, NEW f \in Files, NEW len \in Contents(f), Edit(f, len)
  PROVE  /\ Kinds'
         /\ \A s \in Seq(Pieces) : Fresh(s) => Fresh(s)'
         /\ \A s \in Seq(Pieces), e \in BOOLEAN : \A lines :
              Noticed(e, lines, s) => Noticed(e, lines, s)'
         /\ (NasmStayed' => NasmStayed) /\ \A b \in Names : SourcesStayed(b)' => SourcesStayed(b)
  <1> USE DEF Edit
  <1>1. len \in Lengths(f) /\ len \in Int
    BY BuildAssumption DEF Lengths, Absent, Broken
  <1>2. /\ edits' = edits + 1 /\ edits' \in Nat /\ since' = since
        /\ edits \in Nat /\ since \in Nat /\ since <= edits
    BY DEF Kinds, scriptVars
  <1>3. /\ file' \in [Files -> [rev : Nat, len : Int]]
        /\ file'[f] = [rev |-> edits', len |-> len]
        /\ \A g \in Files \ {f} : file'[g] = file[g]
    BY <1>1, <1>2 DEF Kinds
  <1>4. \A g \in Files : file'[g].rev <= edits' /\ file'[g].len \in Lengths(g)
    <2> TAKE g \in Files
    <2>1. file[g].rev \in Nat /\ file[g].rev <= edits /\ file[g].len \in Lengths(g)
      BY DEF Kinds
    <2>2. CASE g = f
      BY <1>1, <1>2, <1>3, <2>2
    <2>3. CASE g # f
      BY <1>2, <1>3, <2>1, <2>3
    <2> QED  BY <2>2, <2>3
  <1>5. touched' \in [BOOLEAN -> SUBSET Files] /\ \A e \in BOOLEAN : touched'[e] = touched[e] \cup {f}
    BY DEF Kinds
  <1>6. Kinds'
    BY <1>2, <1>3, <1>4, <1>5 DEF Kinds, scriptVars
  <1>7. ASSUME NEW p \in Pieces PROVE /\ p.file \in Files
                                      /\ p.file = f \/ (Current(p) => Current(p)')
    BY <1>3 DEF Pieces, Current, Piece
  <1>8. ASSUME NEW s \in Seq(Pieces), Fresh(s) PROVE Fresh(s)'
    <2> SUFFICES ASSUME NEW i \in DOMAIN s, file'[s[i].file].rev <= since' PROVE Current(s[i])'
      BY DEF Fresh
    <2>1. s[i] \in Pieces
      OBVIOUS
    <2>2. s[i].file # f
      BY <1>2, <1>3
    <2>3. file[s[i].file].rev <= since
      BY <1>2, <1>3, <1>7, <2>1, <2>2
    <2> QED  BY <1>7, <1>8, <2>1, <2>2, <2>3 DEF Fresh
  <1>9. ASSUME NEW s \in Seq(Pieces), NEW e \in BOOLEAN, NEW lines, Noticed(e, lines, s)
        PROVE  Noticed(e, lines, s)'
    <2>1. \A i \in DOMAIN s : s[i] \in Pieces
      OBVIOUS
    <2> QED  BY <1>5, <1>7, <1>9, <2>1 DEF Noticed
  <1>10. ASSUME NEW b \in Names, SourcesStayed(b)' PROVE SourcesStayed(b)
    <2> SUFFICES ASSUME NEW g \in Sources(b), Absent \in Lengths(g)
                 PROVE  Exists(g) /\ file[g].rev = 0
      BY DEF SourcesStayed
    <2>1. g \in Files
      BY DEF Files
    <2>2. Exists(g)' /\ file'[g].rev = 0
      BY <1>10 DEF SourcesStayed
    <2>3. g # f
      BY <1>2, <1>3, <2>2
    <2> QED  BY <1>3, <2>1, <2>2, <2>3 DEF Exists
  <1>11. NasmStayed' => NasmStayed
    BY DEF NasmStayed
  <1> QED  BY <1>6, <1>8, <1>9, <1>10, <1>11

LEMMA FromEdit ==
  ASSUME IInv, NEW f \in Files, NEW len \in Contents(f), Edit(f, len)
  PROVE  IInv'
  <1>1. /\ Kinds'
        /\ \A s \in Seq(Pieces) : Fresh(s) => Fresh(s)'
        /\ \A s \in Seq(Pieces), e \in BOOLEAN : \A lines :
             Noticed(e, lines, s) => Noticed(e, lines, s)'
        /\ (NasmStayed' => NasmStayed) /\ \A b \in Names : SourcesStayed(b)' => SourcesStayed(b)
    BY EditKeeps DEF IInv
  <1>2. UNCHANGED <<pc, embed, nasmOk, todo, combined, printed, out, tracked, ran, lib>>
    BY DEF Edit, scriptVars
  <1>3. /\ out \in [BOOLEAN -> [Names -> Seq(Pieces)]] /\ lib \in [Names -> Seq(Pieces)]
        /\ combined \in Seq(Pieces) /\ embed \in BOOLEAN
    BY DEF IInv, Kinds
  <1>4. \A e, crate : SameWay(e, crate) => SameWay(e, crate)'
    BY <1>1 DEF SameWay
  <1>5. \A e \in BOOLEAN : Settled(e)'
    <2> SUFFICES ASSUME NEW e \in BOOLEAN, ran[e], ~(pc = "script" /\ embed = e)
                 PROVE  /\ \A b \in Names : /\ Complete(e, b, out[e][b])
                                            /\ Noticed(e, tracked[e], out[e][b])'
                        /\ SameWay(e, out[e])'
      BY <1>2 DEF Settled
    <2>1. Settled(e)
      BY DEF IInv
    <2>2. \A b \in Names : out[e][b] \in Seq(Pieces)
      BY <1>3
    <2> QED  BY <1>1, <1>2, <1>4, <2>1, <2>2 DEF Settled
  <1>6. Scripting'
    <2> SUFFICES ASSUME pc = "script" PROVE Scripting'
      BY <1>2 DEF Scripting
    <2>1. Scripting
      BY DEF IInv
    <2>2. \A b \in Names : out[embed][b] \in Seq(Pieces)
      BY <1>3
    <2>3. ASSUME NEW b \in Names \ ToSet(todo) PROVE DoneBlob(b, out[embed][b])'
      BY <1>1, <1>2, <1>3, <2>1, <2>2 DEF Scripting, DoneBlob
    <2>4. Noticed(embed, printed, combined)' /\ Fresh(combined)'
      BY <1>1, <1>2, <1>3, <2>1 DEF Scripting
    <2>5. (embed /\ NasmStayed => nasmOk)'
      BY <1>1, <1>2, <2>1 DEF Scripting
    <2>6. Stages(Head(todo), combined)' = Stages(Head(todo), combined)
      BY <1>2 DEF Stages
    <2> QED  BY <1>2, <2>1, <2>3, <2>4, <2>5, <2>6 DEF Scripting
  <1>7. Compiling' /\ Finished'
    BY <1>1, <1>2, <1>3, <1>4 DEF Compiling, Finished, IInv
  <1> QED  BY <1>1, <1>5, <1>6, <1>7 DEF IInv

(* Nasm comes or goes, or nothing happens: no file and no build changes.    *)
LEMMA NoFileChanges ==
  ASSUME IInv,
         \/ UNCHANGED <<edits, nasm>>
         \/ edits' = edits + 1 /\ nasm' = [rev |-> edits', on |-> ~nasm.on],
         UNCHANGED <<file, pc, scriptVars, cargoVars>>
  PROVE  IInv'
  <1>1. UNCHANGED <<file, pc, embed, since, nasmOk, todo, combined, printed, out, tracked, touched,
                    ran, lib>>
    BY DEF scriptVars, cargoVars
  <1>2. Kinds'
    <2>1. \A f \in Files : file[f].rev \in Nat
      BY DEF IInv, Kinds
    <2>2. nasm \in [rev : Nat, on : BOOLEAN] /\ edits \in Nat
      BY DEF IInv, Kinds
    <2>3. edits' \in Nat /\ edits <= edits'
      BY <2>2
    <2>4. nasm' \in [rev : Nat, on : BOOLEAN]
      <3>1. CASE UNCHANGED <<edits, nasm>>
        BY <2>2, <3>1
      <3>2. CASE edits' = edits + 1 /\ nasm' = [rev |-> edits', on |-> ~nasm.on]
        <4>1. PICK n, on : n = edits' /\ on = ~nasm.on
          OBVIOUS
        <4>2. n \in Nat /\ on \in BOOLEAN
          BY <2>3, <4>1
        <4>3. [rev |-> n, on |-> on] \in [rev : Nat, on : BOOLEAN]
          BY ONLY <4>2
        <4> QED  BY <3>2, <4>1, <4>3
      <3> QED  BY <3>1, <3>2
    <2>5. \A f \in Files : file[f].rev <= edits'
      BY <2>1, <2>2, <2>3 DEF IInv, Kinds
    <2> QED  BY <1>1, <2>2, <2>3, <2>4, <2>5 DEF IInv, Kinds
  <1>3. \A s : Fresh(s)' = Fresh(s)
    BY <1>1 DEF Fresh, Current, Piece
  <1>4. \A e, lines, s : Noticed(e, lines, s)' = Noticed(e, lines, s)
    BY <1>1 DEF Noticed, Current, Piece
  <1>5. (NasmStayed' => NasmStayed) /\ \A b : SourcesStayed(b)' = SourcesStayed(b)
    <2>1. edits \in Nat
      BY DEF IInv, Kinds
    <2>2. NasmStayed' => NasmStayed
      BY <2>1 DEF NasmStayed
    <2> QED  BY <1>1, <2>2 DEF SourcesStayed, Exists
  <1>6. \A e, crate : SameWay(e, crate) => SameWay(e, crate)'
    BY <1>5 DEF SameWay
  <1>8. \A b, s : DoneBlob(b, s)' = DoneBlob(b, s)
    BY <1>1, <1>3, <1>4, <1>5 DEF DoneBlob
  <1>7. (\A e \in BOOLEAN : Settled(e)') /\ Scripting' /\ Compiling' /\ Finished'
    BY <1>1, <1>3, <1>4, <1>5, <1>6, <1>8 DEF IInv, Settled, Scripting, Compiling, Finished
  <1> QED  BY <1>2, <1>7 DEF IInv

(**************************** cargo's steps *****************************)
LEMMA FromCargo ==
  ASSUME IInv, NEW e \in BOOLEAN, Cargo(e)
  PROVE  IInv'
  <1>1. /\ pc \in {"idle", "done"} /\ embed' = e /\ since' = edits
        /\ UNCHANGED <<file, nasm, edits, out, tracked, ran, lib>>
    BY DEF Cargo, devVars
  <1>2. Kinds
    BY DEF IInv
  <1>3. \A p : Current(p)' = Current(p)
    BY <1>1 DEF Current, Piece
  <1>4. \A d, crate : SameWay(d, crate)' = SameWay(d, crate)
    BY <1>1 DEF SameWay, SourcesStayed, NasmStayed, Exists
  <1>5. \A d \in BOOLEAN : out[d] \in [Names -> Seq(Pieces)]
    BY <1>2 DEF Kinds
  <1>6. CASE ~Stale(e)
    <2>1. /\ pc' = "compile"
          /\ UNCHANGED <<nasmOk, todo, combined, printed, touched>>
      BY <1>6 DEF Cargo
    <2>2. Kinds'
      BY <1>1, <1>2, <2>1 DEF Kinds
    <2>3. ASSUME NEW d \in BOOLEAN PROVE Settled(d)'
      <3>1. Settled(d) /\ pc # "script"
        BY <1>1 DEF IInv
      <3>2. \A b \in Names : Noticed(d, tracked[d], out[d][b])' = Noticed(d, tracked[d], out[d][b])
        BY <1>1, <1>3, <2>1 DEF Noticed
      <3> QED  BY <1>1, <1>4, <2>1, <3>1, <3>2 DEF Settled
    <2>4. ran[e] /\ \A f \in tracked[e] : f \notin touched[e]
      BY <1>6 DEF Stale
    <2>5. ASSUME NEW b \in Names PROVE Fresh(out[e][b])'
      <3>1. Noticed(e, tracked[e], out[e][b])
        BY <1>1, <2>4 DEF IInv, Settled
      <3>2. \A i \in DOMAIN out[e][b] : Current(out[e][b][i])
        BY <2>4, <3>1 DEF Noticed
      <3> QED  BY <1>1, <1>3, <3>2 DEF Fresh
    <2> QED  BY <1>1, <2>1, <2>2, <2>3, <2>4, <2>5 DEF IInv, Scripting, Compiling, Finished
  <1>7. CASE Stale(e)
    <2>1. /\ pc' = "script" /\ nasmOk' = (e /\ nasm.on)
          /\ todo' = Blobs /\ combined' = <<>> /\ printed' = {}
          /\ touched' = [touched EXCEPT ![e] = {}]
      BY <1>7 DEF Cargo
    <2>2. Blobs \in Seq(Names) /\ Names = ToSet(Blobs) /\ Names # {}
      BY BuildAssumption DEF Names
    <2>3. Blobs # <<>> /\ Head(Blobs) \in Names
      BY <2>2 DEF ToSet
    <2>4. touched' \in [BOOLEAN -> SUBSET Files] /\ \A d \in BOOLEAN \ {e} : touched'[d] = touched[d]
      BY <1>2, <2>1 DEF Kinds
    <2>5. nasmOk' \in BOOLEAN
      BY <1>2, <2>1 DEF Kinds
    <2>9. e /\ NasmStayed' => nasmOk'
      BY <1>1, <2>1 DEF NasmStayed
    <2>6. Kinds'
      BY <1>1, <1>2, <2>1, <2>2, <2>4, <2>5 DEF Kinds
    <2>7. ASSUME NEW d \in BOOLEAN PROVE Settled(d)'
      <3>1. CASE d = e
        BY <1>1, <2>1, <3>1 DEF Settled
      <3>2. CASE d # e
        <4>1. Settled(d) /\ pc # "script"
          BY <1>1 DEF IInv
        <4>2. \A b \in Names : Noticed(d, tracked[d], out[d][b])' = Noticed(d, tracked[d], out[d][b])
          BY <1>1, <1>3, <2>4, <3>2 DEF Noticed
        <4> QED  BY <1>1, <1>4, <2>1, <4>1, <4>2 DEF Settled
      <3> QED  BY <3>1, <3>2
    <2>8. Scripting'
      <3>1. Parts[Head(Blobs)] > 0
        BY <2>3, BuildAssumption
      <3>2. Names \ ToSet(Blobs) = {}
        BY <2>2
      <3>3. Stages(Head(Blobs), <<>>) /\ Noticed(e, {}, <<>>)' /\ Fresh(<<>>)'
        BY DEF Stages, Noticed, Fresh
      <3> QED  BY <1>1, <2>1, <2>3, <2>9, <3>1, <3>2, <3>3 DEF Scripting
    <2> QED  BY <2>1, <2>6, <2>7, <2>8 DEF IInv, Compiling, Finished
  <1> QED  BY <1>6, <1>7

LEMMA FromCompile ==
  ASSUME IInv, Compile
  PROVE  IInv'
  <1>1. /\ pc = "compile" /\ pc' = "done" /\ lib' = out[embed]
        /\ UNCHANGED <<file, nasm, edits, embed, since, nasmOk, todo, combined, printed, out, tracked, touched, ran>>
    BY DEF Compile, devVars, scriptVars
  <1>2. Kinds /\ embed \in BOOLEAN
    BY DEF IInv, Kinds
  <1>3. out[embed] \in [Names -> Seq(Pieces)]
    BY <1>2 DEF Kinds
  <1>4. Kinds'
    BY <1>1, <1>2, <1>3 DEF Kinds
  <1>5. \A p : Current(p)' = Current(p)
    BY <1>1 DEF Current, Piece
  <1>6. \A e, crate : SameWay(e, crate)' = SameWay(e, crate)
    BY <1>1 DEF SameWay, SourcesStayed, NasmStayed, Exists
  <1>7. ASSUME NEW d \in BOOLEAN PROVE Settled(d)'
    <2>1. Settled(d)
      BY DEF IInv
    <2>2. \A b \in Names : Noticed(d, tracked[d], out[d][b])' = Noticed(d, tracked[d], out[d][b])
      BY <1>1, <1>5 DEF Noticed
    <2> QED  BY <1>1, <1>6, <2>1, <2>2 DEF Settled
  <1>8. \A s : Fresh(s)' = Fresh(s)
    BY <1>1, <1>5 DEF Fresh
  <1>9. ran[embed] /\ \A b \in Names : Fresh(out[embed][b])
    BY <1>1 DEF IInv, Compiling
  <1>10. /\ \A b \in Names : Complete(embed, b, out[embed][b])
         /\ SameWay(embed, out[embed])
    BY <1>1, <1>2, <1>9 DEF IInv, Settled
  <1>11. Finished'
    BY <1>1, <1>6, <1>8, <1>9, <1>10 DEF Finished
  <1> QED  BY <1>1, <1>4, <1>7, <1>11 DEF IInv, Scripting, Compiling

(************************** the script's steps **************************)
LEMMA ScriptFrame ==
  ASSUME KeepScript
  PROVE  /\ UNCHANGED <<file, nasm, edits, embed, since, nasmOk, touched, lib>>
         /\ \A p : Current(p)' = Current(p)
         /\ \A s : Fresh(s)' = Fresh(s)
         /\ \A e, lines, s : Noticed(e, lines, s)' = Noticed(e, lines, s)
         /\ \A e, crate : SameWay(e, crate)' = SameWay(e, crate)
         /\ NasmStayed' = NasmStayed /\ \A b : SourcesStayed(b)' = SourcesStayed(b)
  <1> USE DEF KeepScript, devVars
  <1>1. \A p : Current(p)' = Current(p)
    BY DEF Current, Piece
  <1>2. NasmStayed' = NasmStayed /\ \A b : SourcesStayed(b)' = SourcesStayed(b)
    BY DEF NasmStayed, SourcesStayed, Exists
  <1>3. \A s : Fresh(s)' = Fresh(s)
    BY <1>1 DEF Fresh
  <1>4. \A e, lines, s : Noticed(e, lines, s)' = Noticed(e, lines, s)
    BY <1>1 DEF Noticed
  <1> QED  BY <1>1, <1>2, <1>3, <1>4 DEF SameWay

(* The blob whose turn it is is written whole.                              *)
LEMMA Writes ==
  ASSUME IInv, pc = "script", KeepScript,
         NEW s \in Seq(Pieces), NEW lines \in SUBSET Files, WriteBlob(s, lines),
         printed \subseteq lines,
         Complete(embed, Head(todo), s), Noticed(embed, lines, s), Fresh(s),
         SourcesStayed(Head(todo)) /\ s # <<>> => (Assembly(s) <=> nasmOk)
  PROVE  IInv'
  <1>1. /\ UNCHANGED <<file, nasm, edits, embed, since, nasmOk, touched, lib>>
        /\ \A q : Fresh(q)' = Fresh(q)
        /\ \A e, l, q : Noticed(e, l, q)' = Noticed(e, l, q)
        /\ \A e, crate : SameWay(e, crate)' = SameWay(e, crate)
        /\ NasmStayed' = NasmStayed /\ \A b : SourcesStayed(b)' = SourcesStayed(b)
    BY ScriptFrame
  <1>2. Kinds /\ Scripting /\ embed \in BOOLEAN /\ todo \in Seq(Names) /\ todo # <<>>
    BY DEF IInv, Kinds, Scripting
  <1>3. PICK h, t : h = Head(todo) /\ t = Tail(todo)
    OBVIOUS
  <1>4. /\ h \in Names /\ t \in Seq(Names) /\ Len(t) = Len(todo) - 1
        /\ ToSet(todo) = {h} \cup ToSet(t)
    <2>1. h \in Names /\ t \in Seq(Names) /\ Len(t) = Len(todo) - 1
      BY <1>2, <1>3
    <2>2. todo[1] = h /\ Len(todo) \in Nat \ {0} /\ DOMAIN todo = 1..Len(todo) /\ DOMAIN t = 1..Len(t)
      BY <1>2, <1>3, <2>1
    <2>3. \A i \in 1..Len(t) : t[i] = todo[i + 1]
      BY <1>2, <1>3
    <2>4. \A i \in 1..Len(todo) : i = 1 \/ (i - 1 \in 1..Len(t) /\ (i - 1) + 1 = i)
      BY <2>1, <2>2
    <2>5. \A i \in 1..Len(t) : i + 1 \in 1..Len(todo)
      BY <2>1, <2>2
    <2>6. \A i \in 1..Len(todo) : todo[i] = h \/ todo[i] = t[i - 1]
      BY <2>2, <2>3, <2>4
    <2>7. ToSet(todo) \subseteq {h} \cup ToSet(t)
      BY <2>2, <2>4, <2>6 DEF ToSet
    <2>8. {h} \cup ToSet(t) \subseteq ToSet(todo)
      BY <2>2, <2>3, <2>5 DEF ToSet
    <2> QED  BY <2>1, <2>7, <2>8
  <1>5. /\ todo' = t /\ combined' = <<>> /\ printed' = lines
        /\ out' = [out EXCEPT ![embed][h] = s]
        /\ IF t = <<>>
           THEN /\ pc' = "compile" /\ tracked' = [tracked EXCEPT ![embed] = lines]
                /\ ran' = [ran EXCEPT ![embed] = TRUE]
           ELSE UNCHANGED <<pc, tracked, ran>>
    <2>1. Len(todo) = 1 <=> t = <<>>
      BY <1>2, <1>4
    <2> QED  BY <1>3, <2>1 DEF WriteBlob
  <1>6. out \in [BOOLEAN -> [Names -> Seq(Pieces)]] /\ out[embed] \in [Names -> Seq(Pieces)]
    BY <1>2 DEF Kinds
  <1>. PICK o : o = out'[embed]
    OBVIOUS
  <1>7. /\ out' \in [BOOLEAN -> [Names -> Seq(Pieces)]]
        /\ out'[embed][h] = s
        /\ \A b \in Names \ {h} : out'[embed][b] = out[embed][b]
        /\ \A d \in BOOLEAN \ {embed} : out'[d] = out[d]
    BY <1>2, <1>4, <1>5, <1>6
  <1>8. Kinds'
    <2>1. /\ pc' \in {"idle", "script", "compile", "done"}
          /\ tracked' \in [BOOLEAN -> SUBSET Files] /\ ran' \in [BOOLEAN -> BOOLEAN]
      BY <1>2, <1>5 DEF Kinds
    <2>2. combined' \in Seq(Pieces)
      BY <1>5
    <2> QED  BY <1>1, <1>2, <1>4, <1>5, <1>7, <2>1, <2>2 DEF Kinds
  <1>9. ASSUME NEW b \in Names \ ToSet(t) PROVE DoneBlob(b, o[b])'
    <2>1. CASE b = h
      BY <1>1, <1>3, <1>5, <1>7, <2>1 DEF DoneBlob
    <2>2. CASE b # h
      <3>1. DoneBlob(b, out[embed][b])
        BY <1>2, <1>4, <2>2 DEF Scripting
      <3>2. Noticed(embed, lines, out[embed][b])
        BY <3>1 DEF DoneBlob, Noticed
      <3> QED  BY <1>1, <1>5, <1>7, <2>2, <3>1, <3>2 DEF DoneBlob
    <2> QED  BY <2>1, <2>2
  <1>10. ASSUME NEW d \in BOOLEAN \ {embed} PROVE Settled(d)'
    <2>1. Settled(d)
      BY DEF IInv
    <2>2. out'[d] = out[d] /\ tracked'[d] = tracked[d] /\ ran'[d] = ran[d]
      BY <1>2, <1>5, <1>7 DEF Kinds
    <2> QED  BY <1>1, <2>1, <2>2 DEF Settled
  <1>11. Finished'
    BY <1>5 DEF Finished
  <1>12. CASE t # <<>>
    <2>1. UNCHANGED <<pc, tracked, ran>>
      BY <1>5, <1>12
    <2>2. Settled(embed)' /\ Compiling'
      BY <1>1, <2>1 DEF Settled, Compiling
    <2>3. Scripting'
      <3>1. Parts[Head(t)] > 0
        BY <1>4, <1>12, BuildAssumption
      <3>2. Stages(Head(t), <<>>) /\ Noticed(embed, lines, <<>>) /\ Fresh(<<>>)
        BY DEF Stages, Noticed, Fresh
      <3>3. (embed /\ NasmStayed => nasmOk)'
        BY <1>1, <1>2 DEF IInv, Scripting
      <3> QED  BY <1>1, <1>5, <1>9, <1>12, <3>1, <3>2, <3>3 DEF Scripting
    <2>4. \A d \in BOOLEAN : Settled(d)'
      BY <1>1, <1>10, <2>2
    <2> QED  BY <1>8, <1>11, <2>2, <2>3, <2>4 DEF IInv
  <1>13. CASE t = <<>>
    <2>1. /\ pc' = "compile" /\ tracked'[embed] = lines /\ ran'[embed]
      BY <1>2, <1>5, <1>13 DEF Kinds
    <2>2. \A b \in Names : DoneBlob(b, o[b])'
      BY <1>9, <1>13 DEF ToSet
    <2>a. embed /\ NasmStayed => nasmOk
      BY <1>2 DEF IInv, Scripting
    <2>b. ASSUME embed, NEW b \in Names PROVE o[b] # <<>>
      <3>1. Complete(embed, b, o[b])
        BY <1>1, <2>2 DEF DoneBlob
      <3>2. Parts[b] \in {1, 2}
        BY BuildAssumption
      <3>3. PICK q : q = o[b]
        OBVIOUS
      <3>4. Len(q) = 1 \/ Len(q) = 2
        BY <2>b, <3>1, <3>2, <3>3 DEF Complete
      <3>5. q \in Seq(Pieces)
        BY <1>2, <1>7, <3>3
      <3>6. q = <<>> <=> Len(q) = 0
        BY <3>5, EmptySeq
      <3>7. Len(q) # 0
        BY ONLY <3>4
      <3> QED  BY <3>3, <3>6, <3>7, Zenon
    <2>3. SameWay(embed, o)'
      BY <1>1, <2>2, <2>a, <2>b DEF DoneBlob, SameWay
    <2>4. Settled(embed)'
      BY <1>1, <1>5, <2>1, <2>2, <2>3 DEF Settled, DoneBlob
    <2>5. Compiling' /\ Scripting'
      BY <1>1, <2>1, <2>2 DEF Compiling, Scripting, DoneBlob
    <2>6. \A d \in BOOLEAN : Settled(d)'
      BY <1>1, <1>10, <2>4
    <2> QED  BY <1>8, <1>11, <2>5, <2>6 DEF IInv
  <1> QED  BY <1>12, <1>13

LEMMA Panics ==
  ASSUME IInv, pc = "script", KeepScript, Panic
  PROVE  IInv'
  <1>1. /\ UNCHANGED <<file, nasm, edits, embed, since, nasmOk, touched, lib>>
        /\ \A e, l, q : Noticed(e, l, q)' = Noticed(e, l, q)
        /\ \A e, crate : SameWay(e, crate)' = SameWay(e, crate)
    BY ScriptFrame
  <1>2. /\ pc' = "idle" /\ ran' = [ran EXCEPT ![embed] = FALSE]
        /\ todo' = <<>> /\ combined' = <<>> /\ printed' = {}
        /\ UNCHANGED <<out, tracked>>
    BY DEF Panic
  <1>3. ran' \in [BOOLEAN -> BOOLEAN] /\ ~ran'[embed] /\ \A d \in BOOLEAN \ {embed} : ran'[d] = ran[d]
    BY <1>2 DEF IInv, Kinds
  <1>4. Kinds'
    BY <1>1, <1>2, <1>3 DEF IInv, Kinds
  <1>5. ASSUME NEW d \in BOOLEAN PROVE Settled(d)'
    <2>1. CASE d = embed
      BY <1>1, <1>3, <2>1 DEF Settled
    <2>2. CASE d # embed
      <3>1. Settled(d)
        BY DEF IInv
      <3> QED  BY <1>1, <1>2, <1>3, <2>2, <3>1 DEF Settled
    <2> QED  BY <2>1, <2>2
  <1> QED  BY <1>2, <1>4, <1>5 DEF IInv, Scripting, Compiling, Finished

LEMMA FromWriteEmpty ==
  ASSUME IInv, WriteEmpty
  PROVE  IInv'
  <1>1. pc = "script" /\ ~embed /\ WriteBlob(<<>>, printed) /\ KeepScript
    BY DEF WriteEmpty
  <1>2. <<>> \in Seq(Pieces) /\ printed \in SUBSET Files
    BY DEF IInv, Kinds
  <1>3. Complete(embed, Head(todo), <<>>) /\ Noticed(embed, printed, <<>>) /\ Fresh(<<>>)
    BY <1>1 DEF Complete, Noticed, Fresh
  <1> QED  BY <1>1, <1>2, <1>3, Writes

(* What the script reads of a file is that file.                            *)
LEMMA PieceRead ==
  ASSUME Kinds, NEW f \in Files
  PROVE  Piece(f) \in Pieces /\ Piece(f).file = f /\ Current(Piece(f))
  BY DEF Kinds, Pieces, Piece, Current

LEMMA FromCopyPrebuilt ==
  ASSUME IInv, CopyPrebuilt
  PROVE  IInv'
  <1>1. pc = "script" /\ embed /\ ~FromSource(Head(todo)) /\ KeepScript
    BY DEF CopyPrebuilt
  <1>2. Kinds /\ Scripting /\ todo \in Seq(Names) /\ todo # <<>> /\ printed \in SUBSET Files
    BY <1>1 DEF IInv, Kinds, Scripting
  <1>3. PICK b \in Names : b = Head(todo)
    BY <1>2
  <1>4. PICK f : f = Prebuilt(b)
    OBVIOUS
  <1>5. f \in Files /\ f[2] = 0
    BY <1>4 DEF Prebuilt, Files
  <1>6. CASE ~Exists(f)
    BY <1>1, <1>3, <1>4, <1>6, Panics DEF CopyPrebuilt
  <1>7. CASE Exists(f)
    <2>1. PICK s : s = <<Piece(f)>>
      OBVIOUS
    <2>2. s \in Seq(Pieces) /\ Len(s) = 1 /\ s[1] = Piece(f) /\ DOMAIN s = {1}
      BY <1>2, <1>5, <2>1, PieceRead
    <2>3. WriteBlob(s, printed \cup {f})
      BY <1>3, <1>4, <1>7, <2>1 DEF CopyPrebuilt
    <2>4. Piece(f).len \in Nat
      <3>1. Piece(f).len = file[f].len /\ file[f].len \in Lengths(f)
        BY <1>2, <1>5 DEF Piece, Kinds
      <3> QED  BY <1>4, <1>5, <1>7, <3>1, BuildAssumption DEF Exists
    <2>5. Complete(embed, Head(todo), s)
      <3>1. s[1].file = Prebuilt(Head(todo))
        BY <1>2, <1>3, <1>4, <1>5, <2>2, PieceRead
      <3> QED  BY <1>1, <2>2, <2>4, <3>1 DEF Complete
    <2>6. Noticed(embed, printed \cup {f}, s) /\ Fresh(s)
      BY <1>2, <1>5, <2>2, PieceRead DEF Noticed, Fresh
    <2>7. ~Assembly(s)
      BY <1>2, <1>5, <2>2, PieceRead DEF Assembly
    <2>8. SourcesStayed(b) => ~nasmOk
      <3>1. ASSUME SourcesStayed(b), NEW g \in Sources(b) PROVE Exists(g)
        <4>1. g \in Files
          BY DEF Files
        <4>2. file[g].len \in Lengths(g)
          BY <1>2, <4>1 DEF Kinds
        <4> QED  BY <3>1, <4>2 DEF SourcesStayed, Exists
      <3> QED  BY <1>1, <1>2, <1>3, <3>1 DEF FromSource, Scripting
    <2>9. printed \cup {f} \in SUBSET Files /\ printed \subseteq printed \cup {f}
      BY <1>2, <1>5
    <2> QED  BY <1>1, <1>3, <2>2, <2>3, <2>5, <2>6, <2>7, <2>8, <2>9, Writes
  <1> QED  BY <1>6, <1>7

LEMMA FromAssemble ==
  ASSUME IInv, Assemble
  PROVE  IInv'
  <1>1. pc = "script" /\ embed /\ FromSource(Head(todo)) /\ KeepScript
    BY DEF Assemble
  <1>2. /\ Kinds /\ Scripting /\ todo \in Seq(Names) /\ todo # <<>>
        /\ printed \in SUBSET Files /\ combined \in Seq(Pieces)
    BY <1>1 DEF IInv, Kinds, Scripting
  <1>3. PICK b \in Names : b = Head(todo)
    BY <1>2
  <1>4. PICK n \in Nat : n = Len(combined)
    BY <1>2
  <1>5. PICK f, all : f = <<b, n + 1>> /\ all = Append(combined, Piece(f))
    OBVIOUS
  <1>6. /\ Stages(b, combined) /\ n < Parts[b] /\ Parts[b] \in {1, 2}
        /\ Noticed(embed, printed, combined) /\ Fresh(combined)
    BY <1>1, <1>2, <1>3, <1>4, BuildAssumption DEF Scripting
  <1>7. f \in Files /\ f[2] = n + 1
    <2>1. n + 1 \in 1..Parts[b]
      BY <1>6
    <2> QED  BY <1>5, <2>1 DEF Sources, Files
  <1>8. /\ all \in Seq(Pieces) /\ Len(all) = n + 1 /\ DOMAIN all = 1..(n + 1)
        /\ all[n + 1] = Piece(f) /\ DOMAIN combined = 1..n
        /\ \A i \in 1..n : all[i] = combined[i]
    BY <1>2, <1>4, <1>5, <1>7, PieceRead
  <1>9. CASE ~Assembles(f)
    BY <1>1, <1>3, <1>4, <1>5, <1>9, Panics DEF Assemble
  <1>10. CASE Assembles(f)
    <2>1. Stages(b, all)
      <3>1. /\ Piece(f).file = <<b, n + 1>> /\ Piece(f).len \in Nat
            /\ Parts[b] > 1 => Piece(f).len > 0 /\ Piece(f).len % Multiple = 0
        <4>1. file[f].len \in Int /\ f[1] = b
          BY <1>2, <1>5, <1>7 DEF Kinds
        <4> QED  BY <1>5, <1>10, <4>1 DEF Assembles, Piece
      <3> QED  BY <1>6, <1>8, <3>1 DEF Stages
    <2>2. printed \cup {f} \in SUBSET Files /\ printed \subseteq printed \cup {f}
      BY <1>2, <1>7
    <2>3. Noticed(embed, printed \cup {f}, all) /\ Fresh(all)
      <3>1. Current(Piece(f)) /\ Piece(f).file = f
        BY <1>2, <1>7, PieceRead
      <3> QED  BY <1>6, <1>8, <3>1 DEF Noticed, Fresh
    <2>4. nasmOk
      BY <1>1 DEF FromSource
    <2>5. \/ Len(all) = Parts[b] /\ WriteBlob(all, printed \cup {f})
          \/ /\ Len(all) < Parts[b]
             /\ combined' = all /\ printed' = printed \cup {f}
             /\ UNCHANGED <<pc, todo, out, tracked, ran>>
      BY <1>3, <1>4, <1>5, <1>10 DEF Assemble, Lines
    <2>6. CASE Len(all) = Parts[b] /\ WriteBlob(all, printed \cup {f})
      <3>1. Complete(embed, Head(todo), all)
        BY <1>1, <1>3, <2>1, <2>6 DEF Complete
      <3>2. Assembly(all)
        <4>1. all[n + 1].file[2] > 0 /\ n + 1 \in DOMAIN all
          BY <1>2, <1>7, <1>8, PieceRead
        <4> QED  BY <4>1 DEF Assembly
      <3> QED  BY <1>1, <1>8, <2>2, <2>3, <2>4, <2>6, <3>1, <3>2, Writes
    <2>7. CASE /\ Len(all) < Parts[b]
               /\ combined' = all /\ printed' = printed \cup {f}
               /\ UNCHANGED <<pc, todo, out, tracked, ran>>
      <3>1. /\ UNCHANGED <<file, nasm, edits, embed, since, nasmOk, touched, lib>>
            /\ \A q : Fresh(q)' = Fresh(q)
            /\ \A e, l, q : Noticed(e, l, q)' = Noticed(e, l, q)
            /\ \A e, crate : SameWay(e, crate)' = SameWay(e, crate)
            /\ NasmStayed' = NasmStayed /\ \A a : SourcesStayed(a)' = SourcesStayed(a)
        BY <1>1, ScriptFrame
      <3>2. Kinds'
        BY <1>2, <1>8, <2>2, <2>7, <3>1 DEF Kinds
      <3>3. ASSUME NEW d \in BOOLEAN PROVE Settled(d)'
        <4>1. Settled(d)
          BY DEF IInv
        <4> QED  BY <2>7, <3>1, <4>1 DEF Settled
      <3>4. ASSUME NEW a \in Names \ ToSet(todo) PROVE DoneBlob(a, out[embed][a])'
        <4>1. DoneBlob(a, out[embed][a])
          BY <1>1, <1>2 DEF Scripting
        <4>2. PICK q : q = out[embed][a]
          OBVIOUS
        <4>3. DoneBlob(a, q)'
          BY <2>7, <3>1, <4>1, <4>2 DEF DoneBlob, Noticed
        <4> QED  BY <2>7, <3>1, <4>2, <4>3
      <3>5. Scripting'
        BY <1>2, <1>3, <2>1, <2>3, <2>4, <2>7, <3>1, <3>4 DEF Scripting
      <3> QED  BY <1>1, <2>7, <3>2, <3>3, <3>5 DEF IInv, Compiling, Finished
    <2> QED  BY <2>5, <2>6, <2>7
  <1> QED  BY <1>9, <1>10

LEMMA NextInv == IInv /\ [Next]_vars => IInv'
  <1> SUFFICES ASSUME IInv, [Next]_vars PROVE IInv'
    OBVIOUS
  <1>1. ASSUME NEW f \in Files, NEW len \in Contents(f), Edit(f, len) PROVE IInv'
    BY <1>1, FromEdit
  <1>2. ASSUME NEW e \in BOOLEAN, Cargo(e) PROVE IInv'
    BY <1>2, FromCargo
  <1>3. CASE UNCHANGED vars
    <2>1. UNCHANGED <<file, pc, scriptVars, cargoVars>>
      BY <1>3 DEF vars, devVars
    <2>2. UNCHANGED <<edits, nasm>>
      BY <1>3 DEF vars, devVars
    <2> QED  BY <2>1, <2>2, NoFileChanges
  <1>4. CASE ToggleNasm
    BY <1>4, NoFileChanges DEF ToggleNasm
  <1> QED  BY <1>1, <1>2, <1>3, <1>4, FromWriteEmpty, FromAssemble, FromCopyPrebuilt,
              FromCompile DEF Next

LEMMA Invariance == Spec => []IInv
  BY StartsWell, NextInv, PTL DEF Spec

(**************************** the theorems ******************************)
(* A crate is made of all sources of each blob or of its prebuilt file, as  *)
(* they were when the build began, or later, whatever was edited, built and *)
(* failed before; and of the sources if neither they nor nasm ever went.    *)
THEOREM NeverStale == Spec => []UpToDate
  <1>1. ASSUME IInv, Built, embed, NEW b \in Names
        PROVE  /\ Complete(TRUE, b, lib[b]) /\ Fresh(lib[b])
               /\ NasmStayed /\ SourcesStayed(b) => Assembly(lib[b])
    BY <1>1 DEF IInv, Finished, Built, SameWay
  <1>2. IInv => UpToDate
    BY <1>1 DEF UpToDate, Complete, Stages, Fresh, Current, Assembled, Assembly
  <1> QED  BY <1>2, Invariance, PTL

(* Assembled and prebuilt blobs are mixed only if a source was missing.     *)
THEOREM NeverMixed == Spec => []OneOrigin
  <1>1. IInv => OneOrigin
    BY DEF IInv, Finished, Built, OneOrigin, SameWay, Assembly, Assembled
  <1> QED  BY <1>1, Invariance, PTL

(************************** the bytes of a blob *************************)
(* A blob has at most two pieces.  FoldLeft takes them off at the end, and  *)
(* is identified by a function that obeys its equation.                     *)
LEMMA Largest == Max({1}) = 1 /\ Max({2}) = 2 /\ Max({1, 2}) = 2
  <1>1. Max({1}) \in {1} /\ Max({2}) \in {2}
    BY DEF Max
  <1>2. 2 \in {1, 2} /\ \A y \in {1, 2} : 2 >= y
    OBVIOUS
  <1>3. Max({1, 2}) \in {1, 2} /\ \A y \in {1, 2} : Max({1, 2}) >= y
    BY <1>2 DEF Max
  <1> QED  BY <1>1, <1>3

LEMMA PartsOf ==
  ASSUME NEW S \in {{}, {1}, {1, 2}}, NEW s \in SUBSET S
  PROVE  s \in {{}, {1}, {2}, {1, 2}}
  OBVIOUS

LEMMA SumIs ==
  ASSUME NEW S \in {{}, {1}, {1, 2}}, NEW q, DOMAIN q = S, \A i \in S : q[i].len \in Int
  PROVE  FoldLeft(LAMBDA sum, piece : sum + piece.len, 0, q)
           = (IF 1 \in S THEN q[1].len ELSE 0) + (IF 2 \in S THEN q[2].len ELSE 0)
  <1> DEFINE F == CHOOSE iter : iter = [s \in SUBSET S |-> IF s = {} THEN 0
                                          ELSE iter[s \ {Max(s)}] + q[Max(s)].len]
             W == [s \in SUBSET S |-> (IF 1 \in s THEN q[1].len ELSE 0)
                                       + (IF 2 \in s THEN q[2].len ELSE 0)]
             V == [s \in SUBSET S |-> IF s = {} THEN 0 ELSE W[s \ {Max(s)}] + q[Max(s)].len]
  <1>1. ASSUME NEW s \in SUBSET S PROVE V[s] = W[s]
    <2>1. CASE s = {}
      BY <2>1
    <2>2. CASE s = {1}
      <3>1. s \ {1} = {} /\ W[{}] = 0 /\ W[{1}] = q[1].len /\ q[1].len \in Int
        BY <2>2
      <3>2. V[s] = W[s \ {Max(s)}] + q[Max(s)].len
        BY <2>2
      <3> HIDE DEF V, W
      <3> QED  BY <2>2, <3>1, <3>2, Largest
    <2>3. CASE s = {2}
      <3>1. s \ {2} = {} /\ W[{}] = 0 /\ W[{2}] = q[2].len /\ q[2].len \in Int
        BY <2>3
      <3>2. V[s] = W[s \ {Max(s)}] + q[Max(s)].len
        BY <2>3
      <3> HIDE DEF V, W
      <3> QED  BY <2>3, <3>1, <3>2, Largest
    <2>4. CASE s = {1, 2}
      <3>1. s \ {2} = {1} /\ {1} \in SUBSET S /\ 1 \in S /\ 2 \in S
        BY <2>4
      <3>2. W[{1}] = q[1].len /\ W[s] = q[1].len + q[2].len
        BY <2>4, <3>1
      <3>3. V[s] = W[s \ {Max(s)}] + q[Max(s)].len
        BY <2>4
      <3> HIDE DEF V, W
      <3> QED  BY <2>4, <3>1, <3>2, <3>3, Largest
    <2> QED  BY <2>1, <2>2, <2>3, <2>4, PartsOf
  <1>2. W = V
    <2>1. DOMAIN V = SUBSET S /\ DOMAIN W = SUBSET S
      OBVIOUS
    <2>2. V = [s \in DOMAIN V |-> V[s]] /\ W = [s \in DOMAIN W |-> W[s]]
      OBVIOUS
    <2> HIDE DEF V, W
    <2> QED  BY <1>1, <2>1, <2>2
  <1>3. F = [s \in SUBSET S |-> IF s = {} THEN 0 ELSE F[s \ {Max(s)}] + q[Max(s)].len]
    BY <1>2
  <1>4. FoldLeft(LAMBDA sum, piece : sum + piece.len, 0, q) = F[S]
    BY DEF FoldLeft, MapThenFoldSet
  <1> HIDE DEF F
  <1>5. F[{}] = 0 /\ \A s \in SUBSET S : s # {} => F[s] = F[s \ {Max(s)}] + q[Max(s)].len
    BY <1>3
  <1>6. ASSUME 1 \in S PROVE F[{1}] = q[1].len
    <2>1. {1} \ {1} = {} /\ {1} \in SUBSET S /\ {1} # {} /\ q[1].len \in Int
      BY <1>6
    <2>2. F[{1}] = F[{1} \ {Max({1})}] + q[Max({1})].len
      BY <1>5, <2>1
    <2>3. F[{1}] = F[{}] + q[1].len
      BY <2>1, <2>2, Largest, Zenon
    <2> QED  BY <1>5, <2>1, <2>3
  <1>7. ASSUME S = {1, 2} PROVE F[S] = q[1].len + q[2].len
    <2>1. {1, 2} \ {2} = {1} /\ S \in SUBSET S /\ S # {}
      BY <1>7
    <2>2. F[S] = F[S \ {Max(S)}] + q[Max(S)].len
      BY <1>5, <2>1
    <2>3. F[{1}] = q[1].len
      BY <1>6, <1>7
    <2> QED  BY <1>7, <2>1, <2>2, <2>3, Largest
  <1>8. F[S] = (IF 1 \in S THEN q[1].len ELSE 0) + (IF 2 \in S THEN q[2].len ELSE 0)
    <2>1. CASE S = {}
      BY <1>5, <2>1
    <2>2. CASE S = {1}
      <3>1. F[S] = q[1].len /\ q[1].len \in Int /\ 1 \in S /\ 2 \notin S
        BY <1>6, <2>2
      <3> QED  BY <3>1
    <2>3. CASE S = {1, 2}
      <3>1. F[S] = q[1].len + q[2].len /\ 1 \in S /\ 2 \in S
        BY <1>7, <2>3
      <3> QED  BY <3>1
    <2> QED  BY <2>1, <2>2, <2>3
  <1> QED  BY <1>4, <1>8, Zenon

(* The sectors of a piece, and those of two pieces, one after the other.    *)
Owned == {<<by>> : by \in Pieces \X Nat}
Cuts == [Regions -> Owned]
Sectors(len) == (len + SectorSize - 1) \div SectorSize
LEMMA CutIs ==
  ASSUME NEW p \in Pieces, p.len \in Nat
  PROVE  /\ Cut(p) \in Seq(Cuts) /\ Len(Cut(p)) = Sectors(p.len)
         /\ p.len > 0 => Len(Cut(p)) > 0
  <1>1. p.len + SectorSize - 1 \in Nat /\ SectorSize \in Nat \ {0}
    BY SpliceAssumption
  <1>2. Sectors(p.len) \in Nat
    BY <1>1, Arith!DivMod DEF Sectors
  <1>3. \A i \in Nat : Made(<<p, i>>) \in Cuts
    BY DEF Made, Cuts, Owned
  <1>4. Cut(p) = [i \in 1..Sectors(p.len) |-> Made(<<p, i>>)]
    BY DEF Cut, Sectors
  <1>5. Cut(p) \in Seq(Cuts) /\ Len(Cut(p)) = Sectors(p.len)
    <2>1. PICK n \in Nat : n = Sectors(p.len)
      BY <1>2
    <2>2. [i \in 1..n |-> Made(<<p, i>>)] \in [1..n -> Cuts]
      BY <1>3
    <2>3. PICK f : f = [i \in 1..n |-> Made(<<p, i>>)]
      OBVIOUS
    <2>4. f \in Seq(Cuts) /\ Len(f) = n
      BY <2>2, <2>3
    <2> QED  BY <1>4, <2>1, <2>3, <2>4, Zenon
  <1>6. ASSUME p.len > 0 PROVE Sectors(p.len) > 0
    <2>1. PICK n \in Nat : n = p.len - 1
      BY <1>6
    <2>2. p.len + SectorSize - 1 = 1 * SectorSize + n
      BY <2>1, <1>1
    <2>3. PICK k, r : k = n \div SectorSize /\ r = n % SectorSize
      OBVIOUS
    <2>4. n = SectorSize * k + r /\ k \in Nat /\ r \in 0..(SectorSize - 1)
      BY <2>1, <2>3, <1>1, Arith!DivMod
    <2>5. PICK m \in Nat : m = k + 1
      BY <2>4
    <2>6. p.len + SectorSize - 1 = m * SectorSize + r
      BY <1>1, <2>2, <2>4, <2>5, Z3
    <2>7. (m * SectorSize + r) \div SectorSize = m
      BY <1>1, <2>4, Arith!DivModUnique
    <2> QED  BY <2>4, <2>5, <2>6, <2>7 DEF Sectors
  <1> QED  BY <1>5, <1>6

LEMMA JoinIs ==
  ASSUME NEW S \in {{}, {1}, {1, 2}}, NEW q, DOMAIN q = S,
         \A i \in S : Cut(q[i]) \in Seq(Cuts)
  PROVE  FoldLeft(LAMBDA sectors, piece : sectors \o Cut(piece), <<>>, q)
           = IF S = {} THEN <<>> ELSE IF S = {1} THEN Cut(q[1]) ELSE Cut(q[1]) \o Cut(q[2])
  <1> DEFINE F == CHOOSE iter : iter = [s \in SUBSET S |-> IF s = {} THEN <<>>
                                          ELSE iter[s \ {Max(s)}] \o Cut(q[Max(s)])]
             W == [s \in SUBSET S |->
                     IF s = {} THEN <<>> ELSE IF s = {1} THEN Cut(q[1])
                     ELSE IF s = {2} THEN Cut(q[2]) ELSE Cut(q[1]) \o Cut(q[2])]
             V == [s \in SUBSET S |-> IF s = {} THEN <<>> ELSE W[s \ {Max(s)}] \o Cut(q[Max(s)])]
  <1>1. \A i \in S : <<>> \o Cut(q[i]) = Cut(q[i])
    BY ConcatEmptySeq
  <1>2. ASSUME NEW s \in SUBSET S PROVE V[s] = W[s]
    <2>1. CASE s = {}
      BY <2>1
    <2>2. CASE s = {1}
      <3>1. s \ {1} = {} /\ W[{}] = <<>> /\ W[{1}] = Cut(q[1]) /\ 1 \in S
        BY <2>2
      <3>2. V[s] = W[s \ {Max(s)}] \o Cut(q[Max(s)])
        BY <2>2
      <3> HIDE DEF V, W
      <3> QED  BY <1>1, <2>2, <3>1, <3>2, Largest
    <2>3. CASE s = {2}
      <3>1. s \ {2} = {} /\ W[{}] = <<>> /\ W[{2}] = Cut(q[2]) /\ 2 \in S
        BY <2>3
      <3>2. V[s] = W[s \ {Max(s)}] \o Cut(q[Max(s)])
        BY <2>3
      <3> HIDE DEF V, W
      <3> QED  BY <1>1, <2>3, <3>1, <3>2, Largest
    <2>4. CASE s = {1, 2}
      <3>1. s \ {2} = {1} /\ {1} \in SUBSET S /\ 1 \in S /\ 2 \in S
        BY <2>4
      <3>2. W[{1}] = Cut(q[1]) /\ W[s] = Cut(q[1]) \o Cut(q[2])
        BY <2>4, <3>1
      <3>3. V[s] = W[s \ {Max(s)}] \o Cut(q[Max(s)])
        BY <2>4
      <3> HIDE DEF V, W
      <3> QED  BY <2>4, <3>1, <3>2, <3>3, Largest
    <2> QED  BY <2>1, <2>2, <2>3, <2>4, PartsOf
  <1>3. W = V
    <2>1. DOMAIN V = SUBSET S /\ DOMAIN W = SUBSET S
      OBVIOUS
    <2>2. V = [s \in DOMAIN V |-> V[s]] /\ W = [s \in DOMAIN W |-> W[s]]
      OBVIOUS
    <2> HIDE DEF V, W
    <2> QED  BY <1>2, <2>1, <2>2
  <1>4. F = [s \in SUBSET S |-> IF s = {} THEN <<>> ELSE F[s \ {Max(s)}] \o Cut(q[Max(s)])]
    BY <1>3
  <1>5. FoldLeft(LAMBDA sectors, piece : sectors \o Cut(piece), <<>>, q) = F[S]
    BY DEF FoldLeft, MapThenFoldSet
  <1> HIDE DEF F
  <1>6. F[{}] = <<>> /\ \A s \in SUBSET S : s # {} => F[s] = F[s \ {Max(s)}] \o Cut(q[Max(s)])
    BY <1>4
  <1>7. ASSUME 1 \in S PROVE F[{1}] = Cut(q[1])
    <2>1. {1} \ {1} = {} /\ {1} \in SUBSET S /\ {1} # {}
      BY <1>7
    <2>2. F[{1}] = F[{1} \ {Max({1})}] \o Cut(q[Max({1})])
      BY <1>6, <2>1
    <2>3. F[{1}] = F[{}] \o Cut(q[1])
      BY <2>1, <2>2, Largest, Zenon
    <2> QED  BY <1>1, <1>6, <1>7, <2>3, Zenon
  <1>8. ASSUME S = {1, 2} PROVE F[S] = Cut(q[1]) \o Cut(q[2])
    <2>1. {1, 2} \ {2} = {1} /\ S \in SUBSET S /\ S # {} /\ 1 \in S
      BY <1>8
    <2>2. F[S] = F[S \ {Max(S)}] \o Cut(q[Max(S)])
      BY <1>6, <2>1
    <2>3. F[{1}] = Cut(q[1])
      BY <1>7, <2>1
    <2> QED  BY <1>8, <2>1, <2>2, <2>3, Largest, Zenon
  <1>9. F[S] = IF S = {} THEN <<>> ELSE IF S = {1} THEN Cut(q[1]) ELSE Cut(q[1]) \o Cut(q[2])
    <2>1. CASE S = {}
      BY <1>6, <2>1, Zenon
    <2>2. CASE S = {1}
      <3>1. S # {} /\ 1 \in S
        BY <2>2
      <3> QED  BY <1>7, <2>2, <3>1, Zenon
    <2>3. CASE S = {1, 2}
      <3>1. S # {} /\ S # {1}
        BY <2>3
      <3> QED  BY <1>8, <2>3, <3>1, Zenon
    <2> QED  BY <2>1, <2>2, <2>3
  <1> QED  BY <1>5, <1>9, Zenon

(* A whole blob of a build with the feature has one piece or two, and none  *)
(* is empty.                                                                *)
LEMMA Substance ==
  ASSUME NEW b \in Names, NEW s \in Seq(Pieces), Complete(TRUE, b, s)
  PROVE  /\ DOMAIN s \in {{1}, {1, 2}}
         /\ \A i \in DOMAIN s : /\ s[i] \in Pieces /\ s[i].len \in Nat \ {0}
                                /\ b = "mbr_xp" => s[i].len >= CodeSize
         /\ Assembly(s) => Len(s) = Parts[b] /\ Stages(b, s)
  <1>1. Parts[b] \in {1, 2} /\ DOMAIN s = 1..Len(s) /\ 1..1 = {1} /\ 1..2 = {1, 2}
    BY BuildAssumption
  <1>2. \A i \in DOMAIN s : s[i] \in Pieces /\ s[i].len \in Lengths(s[i].file)
    BY DEF Pieces
  <1>3. CASE Len(s) = 1 /\ s[1].file = Prebuilt(b) /\ s[1].len \in Nat
    <2>1. Prebuilt(b) \in Files /\ Prebuilt(b)[2] = 0
      BY DEF Prebuilt, Files
    <2>2. DOMAIN s = {1} /\ s[1] \in Pieces /\ s[1].len \in Lengths(Prebuilt(b))
      BY <1>1, <1>2, <1>3
    <2>3. s[1].len # 0 /\ (b = "mbr_xp" => s[1].len >= CodeSize)
      BY <1>3, <2>1, <2>2, PaddedAssumption
    <2>4. ~Assembly(s)
      BY <1>3, <2>1, <2>2 DEF Assembly
    <2> QED  BY <1>3, <2>2, <2>3, <2>4
  <1>4. CASE Len(s) = Parts[b] /\ Stages(b, s)
    <2>1. ASSUME NEW i \in DOMAIN s
          PROVE  s[i].len \in Nat \ {0} /\ (b = "mbr_xp" => s[i].len >= CodeSize)
      <3>1. PICK f : f = <<b, i>>
        OBVIOUS
      <3>2. f \in Sources(b) /\ f \in Files /\ f[1] = b /\ s[i].len \in Lengths(f)
        <4>1. i \in 1..Parts[b]
          BY <1>1, <1>4
        <4>2. s[i].file = f
          BY <1>4, <3>1 DEF Stages
        <4> QED  BY <1>2, <3>1, <4>1, <4>2 DEF Sources, Files
      <3>3. s[i].len \in Nat /\ (Parts[b] > 1 => s[i].len > 0)
        BY <1>4 DEF Stages
      <3>4. Parts[b] = 1 => s[i].len # 0
        BY <3>2, PaddedAssumption
      <3>5. b = "mbr_xp" => s[i].len >= CodeSize
        BY <3>2, <3>3, PaddedAssumption
      <3> QED  BY <1>1, <3>3, <3>4, <3>5
    <2> QED  BY <1>1, <1>2, <1>4, <2>1
  <1> QED  BY <1>3, <1>4 DEF Complete

LEMMA BlobIs ==
  ASSUME IInv, Built, NEW b \in Names
  PROVE  /\ Blob(b).len = Length(b)
         /\ ~embed => lib[b] = <<>> /\ Length(b) = 0
         /\ embed => /\ Complete(TRUE, b, lib[b]) /\ lib[b] \in Seq(Pieces)
                     /\ Length(b) \in Nat \ {0}
                     /\ Length(b) = lib[b][1].len + (IF 2 \in DOMAIN lib[b] THEN lib[b][2].len ELSE 0)
                     /\ b = "mbr_xp" => Length(b) >= CodeSize
                     /\ Blob(b).sectors \in Seq(Cuts) /\ Blob(b).sectors # <<>>
                     /\ 2 \in DOMAIN lib[b] =>
                          Blob(b).sectors = Cut(lib[b][1]) \o Cut(lib[b][2])
  <1>1. Complete(embed, b, lib[b]) /\ lib[b] \in Seq(Pieces) /\ embed \in BOOLEAN
    BY DEF IInv, Finished, Built, Kinds
  <1>2. PICK q : q = lib[b]
    OBVIOUS
  <1>3. /\ Length(b) = FoldLeft(LAMBDA sum, piece : sum + piece.len, 0, q)
        /\ Blob(b).len = Length(b)
        /\ Blob(b).sectors = FoldLeft(LAMBDA sectors, piece : sectors \o Cut(piece), <<>>, q)
    <2>1. Length(b) = FoldLeft(LAMBDA sum, piece : sum + piece.len, 0, q)
      BY <1>2, Zenon DEF Length
    <2>2. Blob(b) = Bytes(Length(b), FoldLeft(LAMBDA sectors, piece : sectors \o Cut(piece), <<>>, q))
      BY <1>2, Zenon DEF Blob
    <2>3. \A n, x : Bytes(n, x).len = n /\ Bytes(n, x).sectors = x
      BY DEF Bytes
    <2> QED  BY <2>1, <2>2, <2>3, Zenon
  <1>4. CASE ~embed
    <2>1. q = <<>> /\ DOMAIN q = {}
      BY <1>1, <1>2, <1>4 DEF Complete
    <2>2. PICK S \in {{}, {1}, {1, 2}} : S = DOMAIN q
      BY <2>1
    <2>3. Length(b) = (IF 1 \in S THEN q[1].len ELSE 0) + (IF 2 \in S THEN q[2].len ELSE 0)
      <3>1. \A i \in S : q[i].len \in Int
        BY <2>1, <2>2
      <3>2. FoldLeft(LAMBDA sum, piece : sum + piece.len, 0, q)
              = (IF 1 \in S THEN q[1].len ELSE 0) + (IF 2 \in S THEN q[2].len ELSE 0)
        BY <2>2, <3>1, SumIs, Zenon
      <3> QED  BY <1>3, <3>2, Zenon
    <2>4. Length(b) = 0
      BY <2>1, <2>2, <2>3
    <2>5. Blob(b).len = Length(b)
      BY <1>3
    <2> QED  BY <1>2, <1>4, <2>1, <2>4, <2>5
  <1>5. CASE embed
    <2>1. Complete(TRUE, b, q) /\ q \in Seq(Pieces)
      BY <1>1, <1>2, <1>5
    <2>2. PICK S \in {{}, {1}, {1, 2}} : S = DOMAIN q /\ S # {} /\ 1 \in S
      BY <2>1, Substance
    <2>3. \A i \in S : /\ q[i] \in Pieces /\ q[i].len \in Nat \ {0}
                       /\ b = "mbr_xp" => q[i].len >= CodeSize
      BY <2>1, <2>2, Substance
    <2>4. Length(b) = (IF 1 \in S THEN q[1].len ELSE 0) + (IF 2 \in S THEN q[2].len ELSE 0)
      <3>1. \A i \in S : q[i].len \in Int
        BY <2>3
      <3>2. FoldLeft(LAMBDA sum, piece : sum + piece.len, 0, q)
              = (IF 1 \in S THEN q[1].len ELSE 0) + (IF 2 \in S THEN q[2].len ELSE 0)
        BY <2>2, <3>1, SumIs, Zenon
      <3> QED  BY <1>3, <3>2, Zenon
    <2>5. \A i \in S : Cut(q[i]) \in Seq(Cuts) /\ Len(Cut(q[i])) > 0
      BY <2>3, CutIs
    <2>6. Blob(b).sectors = IF S = {} THEN <<>> ELSE IF S = {1} THEN Cut(q[1])
                            ELSE Cut(q[1]) \o Cut(q[2])
      <3>1. \A i \in S : Cut(q[i]) \in Seq(Cuts)
        BY <2>5
      <3>2. FoldLeft(LAMBDA sectors, piece : sectors \o Cut(piece), <<>>, q)
              = IF S = {} THEN <<>> ELSE IF S = {1} THEN Cut(q[1]) ELSE Cut(q[1]) \o Cut(q[2])
        BY <2>2, <3>1, JoinIs, Zenon
      <3> QED  BY <1>3, <3>2, Zenon
    <2>7. /\ Length(b) \in Nat \ {0} /\ (b = "mbr_xp" => Length(b) >= CodeSize)
          /\ Length(b) = q[1].len + (IF 2 \in S THEN q[2].len ELSE 0)
      <3>1. q[1].len \in Nat \ {0} /\ (2 \in S => q[2].len \in Nat)
        BY <2>2, <2>3
      <3>2. Length(b) = q[1].len + (IF 2 \in S THEN q[2].len ELSE 0)
        BY <2>2, <2>4
      <3>3. b = "mbr_xp" => q[1].len >= CodeSize
        BY <2>2, <2>3
      <3>4. CodeSize \in Nat
        BY SpliceAssumption
      <3> QED  BY <3>1, <3>2, <3>3, <3>4
    <2>8. /\ Blob(b).sectors \in Seq(Cuts) /\ Blob(b).sectors # <<>>
          /\ 2 \in S => Blob(b).sectors = Cut(q[1]) \o Cut(q[2])
      <3>1. CASE S = {1}
        <4>1. Blob(b).sectors = Cut(q[1]) /\ 2 \notin S
          BY <2>2, <2>6, <3>1
        <4>2. Cut(q[1]) \in Seq(Cuts) /\ Len(Cut(q[1])) > 0
          BY <2>2, <2>5
        <4> QED  BY <4>1, <4>2
      <3>2. CASE S = {1, 2}
        <4>1. Blob(b).sectors = Cut(q[1]) \o Cut(q[2])
          BY <2>6, <3>2
        <4>2. PICK x, y : x = Cut(q[1]) /\ y = Cut(q[2])
          OBVIOUS
        <4>3. x \in Seq(Cuts) /\ y \in Seq(Cuts) /\ Len(x) > 0
          BY <2>5, <3>2, <4>2
        <4>4. x \o y \in Seq(Cuts) /\ x \o y # <<>>
          BY <4>3
        <4> QED  BY <4>1, <4>2, <4>4
      <3> QED  BY <2>2, <3>1, <3>2
    <2> QED  BY <1>2, <1>3, <1>5, <2>1, <2>2, <2>7, <2>8
  <1> QED  BY <1>1, <1>4, <1>5

THEOREM AllOrNone == Spec => []EmbeddedTellsAll
  <1>1. "mbr_xp" \in Names
    BY BuildAssumption
  <1>2. IInv => EmbeddedTellsAll
    <2> SUFFICES ASSUME IInv, Built, NEW b \in Names PROVE embedded <=> Length(b) # 0
      BY DEF EmbeddedTellsAll
    <2>1. (Length(b) # 0 <=> embed) /\ (Length("mbr_xp") # 0 <=> embed)
      BY <1>1, BlobIs
    <2> QED  BY <2>1 DEF embedded
  <1> QED  BY <1>2, Invariance, PTL

(***************************** the library ******************************)
LEMMA VerdictIs ==
  ASSUME NEW checks, DOMAIN checks = 1..3, NEW sectors
  PROVE  /\ Verdict(checks, sectors).ok <=> ~checks[1][1] /\ ~checks[2][1] /\ ~checks[3][1]
         /\ Verdict(checks, sectors).ok => Verdict(checks, sectors) = [ok |-> TRUE, sectors |-> sectors]
  <1> DEFINE failed == {i \in DOMAIN checks : checks[i][1]}
             first == CHOOSE i \in failed : \A j \in failed : i <= j
  <1>1. 1..3 = {1, 2, 3}
    OBVIOUS
  <1>2. CASE failed = {}
    <2>1. Verdict(checks, sectors) = [ok |-> TRUE, sectors |-> sectors]
      BY <1>2 DEF Verdict
    <2> QED  BY <1>1, <1>2, <2>1
  <1>3. CASE failed # {}
    <2>1. Verdict(checks, sectors) = [ok |-> FALSE, error |-> checks[first][2]]
      BY <1>3 DEF Verdict
    <2> QED  BY <1>1, <1>3, <2>1
  <1> QED  BY <1>2, <1>3

(* The first sector of an MBR that build_mbr lays out on a disk.            *)
Laid(code, disk) ==
  [code EXCEPT !["disk"] = DeadBeef, !["mark"] = Marked,
               !["table"] = <<Active(Count(disk)), Unused, Unused, Unused>>]
LEMMA BuildIs ==
  ASSUME NEW boot, boot.len \in Nat, NEW disk \in Nat
  PROVE  /\ BuildMbr(boot, disk).ok <=> boot.len # 0 /\ boot.len >= CodeSize /\ disk > StartLba
         /\ BuildMbr(boot, disk).ok =>
              BuildMbr(boot, disk) = [ok |-> TRUE, sectors |-> <<Laid(boot.sectors[1], disk)>>]
  <1> DEFINE checks == << <<boot.len = 0, "NotEmbedded">>,
                          <<boot.len < CodeSize, "BootCodeTooShort">>,
                          <<disk <= StartLba, "DiskTooSmall">> >>
             made == <<Laid(boot.sectors[1], disk)>>
  <1>1. BuildMbr(boot, disk) = Verdict(checks, made)
    BY DEF BuildMbr, Laid
  <1>2. DOMAIN checks = 1..3
    OBVIOUS
  <1>3. /\ checks[1][1] = (boot.len = 0) /\ checks[2][1] = (boot.len < CodeSize)
        /\ checks[3][1] = (disk <= StartLba)
    OBVIOUS
  <1> HIDE DEF checks, made
  <1>4. /\ Verdict(checks, made).ok <=> ~checks[1][1] /\ ~checks[2][1] /\ ~checks[3][1]
        /\ Verdict(checks, made).ok => Verdict(checks, made) = [ok |-> TRUE, sectors |-> made]
    BY <1>2, VerdictIs
  <1>5. (~checks[1][1] /\ ~checks[2][1] /\ ~checks[3][1])
          <=> boot.len # 0 /\ boot.len >= CodeSize /\ disk > StartLba
    <2>1. ~(boot.len < CodeSize) <=> boot.len >= CodeSize
      BY SpliceAssumption
    <2>2. ~(disk <= StartLba) <=> disk > StartLba
      BY SpliceAssumption
    <2> QED  BY <1>3, <2>1, <2>2
  <1> QED  BY <1>1, <1>4, <1>5 DEF made

LEMMA SpliceIs ==
  ASSUME NEW old, old.len = SectorSize, NEW boot, boot.len \in Nat \ {0}, boot.len >= CodeSize
  PROVE  SpliceMbr(old, boot) =
           [ok |-> TRUE, sectors |-> <<Keeping(MbrKept, old.sectors[1], boot.sectors[1])>>]
  <1> DEFINE checks == << <<boot.len = 0, "NotEmbedded">>,
                          <<boot.len < CodeSize, "BootCodeTooShort">>,
                          <<old.len < SectorSize, "ExistingTooShort">> >>
             made == <<Keeping(MbrKept, old.sectors[1], boot.sectors[1])>>
  <1>1. SpliceMbr(old, boot) = Verdict(checks, made)
    BY DEF SpliceMbr
  <1>2. DOMAIN checks = 1..3
    OBVIOUS
  <1>3. /\ checks[1][1] = (boot.len = 0) /\ checks[2][1] = (boot.len < CodeSize)
        /\ checks[3][1] = (old.len < SectorSize)
    OBVIOUS
  <1> HIDE DEF checks, made
  <1>4. /\ Verdict(checks, made).ok <=> ~checks[1][1] /\ ~checks[2][1] /\ ~checks[3][1]
        /\ Verdict(checks, made).ok => Verdict(checks, made) = [ok |-> TRUE, sectors |-> made]
    BY <1>2, VerdictIs
  <1>5. ~checks[1][1] /\ ~checks[2][1] /\ ~checks[3][1]
    <2>1. boot.len # 0 /\ ~(boot.len < CodeSize) /\ ~(old.len < SectorSize)
      BY SpliceAssumption
    <2> QED  BY <1>3, <2>1
  <1> QED  BY <1>1, <1>4, <1>5 DEF made

(* A sector with a region written.                                          *)
LEMMA LaidIs ==
  ASSUME NEW code \in Cuts, NEW disk
  PROVE  /\ Laid(code, disk)["table"] = <<Active(Count(disk)), Unused, Unused, Unused>>
         /\ Laid(code, disk)["disk"] = DeadBeef /\ Laid(code, disk)["mark"] = Marked
         /\ \A r \in Regions \ {"table", "disk", "mark"} : Laid(code, disk)[r] = code[r]
         /\ DOMAIN Laid(code, disk) = Regions
         /\ Laid(code, disk) = [r \in Regions |-> Laid(code, disk)[r]]
  <1>1. DOMAIN code = Regions /\ {"table", "disk", "mark"} \subseteq Regions
    BY DEF Cuts, Regions
  <1> HIDE DEF Regions
  <1>2. DOMAIN Laid(code, disk) = Regions
    BY <1>1 DEF Laid
  <1>3. /\ Laid(code, disk)["table"] = <<Active(Count(disk)), Unused, Unused, Unused>>
        /\ Laid(code, disk)["disk"] = DeadBeef /\ Laid(code, disk)["mark"] = Marked
        /\ \A r \in Regions \ {"table", "disk", "mark"} : Laid(code, disk)[r] = code[r]
    BY <1>1 DEF Laid
  <1>4. Laid(code, disk) = [r \in Regions |-> Laid(code, disk)[r]]
    BY <1>1 DEF Laid
  <1> QED  BY <1>2, <1>3, <1>4

LEMMA FirstSector ==
  ASSUME IInv, Built, embed, NEW b \in Names
  PROVE  Blob(b).sectors[1] \in Cuts
  <1>1. PICK s : s = Blob(b).sectors
    OBVIOUS
  <1>2. s \in Seq(Cuts) /\ s # <<>>
    BY <1>1, BlobIs
  <1> QED  BY <1>1, <1>2

(* The partition that build_mbr makes is inside the disk, takes as much of  *)
(* it as an entry can say, and is the only active one; and it is refused    *)
(* for want of a blob only in a crate without any.                          *)
THEOREM PartitionFits == Spec => []PartitionInsideDisk
  <1>1. "mbr_xp" \in Names /\ Disks \subseteq Nat /\ StartLba \in Nat \ {0} /\ MaxCount \in Nat \ {0}
    BY BuildAssumption, CrateAssumption, SpliceAssumption
  <1>2. IInv => PartitionInsideDisk
    <2> SUFFICES ASSUME IInv, Built, NEW disk \in Disks
                 PROVE  LET made == mbr_xp(disk)
                            p == made.sectors[1]["table"][1]
                        IN  /\ made.ok <=> embedded /\ disk > StartLba
                            /\ made.ok =>
                                 /\ {i \in 1..4 : made.sectors[1]["table"][i].active} = {1}
                                 /\ p.count >= 1 /\ p.lba + p.count <= disk
                                 /\ p.lba + p.count = disk \/ p.count = MaxCount
      BY DEF PartitionInsideDisk
    <2>1. /\ Blob("mbr_xp").len = Length("mbr_xp") /\ Length("mbr_xp") \in Nat
          /\ embed <=> Length("mbr_xp") # 0
          /\ embed => Length("mbr_xp") >= CodeSize
      <3>1. Blob("mbr_xp").len = Length("mbr_xp") /\ (~embed => Length("mbr_xp") = 0)
        BY <1>1, BlobIs
      <3>2. embed => Length("mbr_xp") \in Nat \ {0} /\ Length("mbr_xp") >= CodeSize
        BY <1>1, BlobIs
      <3> QED  BY <3>1, <3>2
    <2>2. disk \in Nat
      BY <1>1
    <2>3. mbr_xp(disk).ok <=> embed /\ disk > StartLba
      BY <2>1, <2>2, BuildIs DEF mbr_xp
    <2>4. embedded <=> embed
      BY <2>1 DEF embedded
    <2>5. ASSUME mbr_xp(disk).ok
          PROVE  /\ {i \in 1..4 : mbr_xp(disk).sectors[1]["table"][i].active} = {1}
                 /\ mbr_xp(disk).sectors[1]["table"][1].count = Count(disk)
                 /\ mbr_xp(disk).sectors[1]["table"][1].lba = StartLba
      <3>1. PICK code \in Cuts : code = Blob("mbr_xp").sectors[1]
        BY <1>1, <2>3, <2>5, FirstSector
      <3>2. mbr_xp(disk).sectors[1] = Laid(code, disk)
        BY <2>1, <2>2, <2>5, <3>1, BuildIs DEF mbr_xp
      <3>3. Laid(code, disk)["table"] = <<Active(Count(disk)), Unused, Unused, Unused>>
        BY LaidIs
      <3>4. PICK table : table = <<Active(Count(disk)), Unused, Unused, Unused>>
        OBVIOUS
      <3>5. /\ table[1].active /\ ~table[2].active /\ ~table[3].active /\ ~table[4].active
            /\ table[1].count = Count(disk) /\ table[1].lba = StartLba
        BY <3>4 DEF Active, Unused, encode
      <3>6. 1..4 = {1, 2, 3, 4}
        OBVIOUS
      <3>7. {i \in 1..4 : table[i].active} = {1}
        BY <3>5, <3>6
      <3>8. mbr_xp(disk).sectors[1]["table"] = table
        BY <3>2, <3>3, <3>4
      <3> QED  BY <3>5, <3>7, <3>8
    <2>6. disk > StartLba => /\ Count(disk) >= 1 /\ StartLba + Count(disk) <= disk
                             /\ StartLba + Count(disk) = disk \/ Count(disk) = MaxCount
      BY <1>1, <2>2 DEF Count
    <2> QED  BY <2>3, <2>4, <2>5, <2>6
  <1> QED  BY <1>2, Invariance, PTL

(* A disk that one variant was built on and the other spliced onto is as if *)
(* it had been built with the other.                                        *)
THEOREM Interchangeable == Spec => []BuildThenSplice
  <1>1. "mbr_xp" \in Names /\ "mbr_win7" \in Names /\ Disks \subseteq Nat
    BY BuildAssumption, CrateAssumption
  <1>2. IInv => BuildThenSplice
    <2> SUFFICES ASSUME IInv, Built, NEW disk \in Disks, mbr_xp(disk).ok,
                        Blob("mbr_win7").len >= CodeSize
                 PROVE  SpliceMbr(Bytes(SectorSize, mbr_xp(disk).sectors), Blob("mbr_win7"))
                          = mbr_win7(disk)
      BY DEF BuildThenSplice
    <2>1. disk \in Nat /\ Blob("mbr_xp").len = Length("mbr_xp") /\ (~embed => Length("mbr_xp") = 0)
      BY <1>1, BlobIs
    <2>2. Length("mbr_xp") \in Nat
      <3>1. embed => Length("mbr_xp") \in Nat \ {0}
        BY <1>1, BlobIs
      <3> QED  BY <2>1, <3>1
    <2>3. embed /\ disk > StartLba
      BY <2>1, <2>2, BuildIs DEF mbr_xp
    <2>4. Blob("mbr_win7").len \in Nat \ {0}
      <3>1. Blob("mbr_win7").len = Length("mbr_win7") /\ Length("mbr_win7") \in Nat \ {0}
        BY <1>1, <2>3, BlobIs
      <3> QED  BY <3>1
    <2>5. PICK x \in Cuts, w \in Cuts : x = Blob("mbr_xp").sectors[1] /\ w = Blob("mbr_win7").sectors[1]
      BY <1>1, <2>3, FirstSector
    <2>6. mbr_xp(disk).sectors = <<Laid(x, disk)>>
      BY <2>1, <2>2, <2>5, BuildIs DEF mbr_xp
    <2>7. mbr_win7(disk) = [ok |-> TRUE, sectors |-> <<Laid(w, disk)>>]
      BY <2>1, <2>3, <2>4, <2>5, BuildIs DEF mbr_win7
    <2>8. PICK old : old = Bytes(SectorSize, mbr_xp(disk).sectors)
      OBVIOUS
    <2>9. old.len = SectorSize /\ old.sectors[1] = Laid(x, disk)
      BY <2>6, <2>8 DEF Bytes
    <2>10. SpliceMbr(old, Blob("mbr_win7"))
             = [ok |-> TRUE, sectors |-> <<Keeping(MbrKept, Laid(x, disk), w)>>]
      BY <2>4, <2>5, <2>9, SpliceIs
    <2>11. Keeping(MbrKept, Laid(x, disk), w) = Laid(w, disk)
      <3>1. ASSUME NEW r \in Regions
            PROVE  Keeping(MbrKept, Laid(x, disk), w)[r] = Laid(w, disk)[r]
        BY LaidIs DEF Keeping, MbrKept
      <3>2. Keeping(MbrKept, Laid(x, disk), w)
              = [r \in Regions |-> Keeping(MbrKept, Laid(x, disk), w)[r]]
        BY DEF Keeping
      <3>3. Laid(w, disk) = [r \in Regions |-> Laid(w, disk)[r]]
        BY LaidIs
      <3> QED  BY <3>1, <3>2, <3>3
    <2> QED  BY <2>7, <2>8, <2>10, <2>11
  <1> QED  BY <1>2, Invariance, PTL

(* A length that is a multiple of a sector is cut into that many sectors.   *)
LEMMA WholeSectors ==
  ASSUME NEW len \in Nat \ {0}, len % SectorSize = 0
  PROVE  /\ Sectors(len) \in Nat \ {0} /\ len = SectorSize * Sectors(len)
         /\ len \div SectorSize = Sectors(len)
  <1>1. SectorSize \in Nat \ {0}
    BY SpliceAssumption
  <1>2. PICK k \in Nat : k = len \div SectorSize
    BY <1>1, Arith!DivMod
  <1>3. len = SectorSize * k + 0
    BY <1>1, <1>2, Arith!DivMod
  <1>4. k # 0
    BY <1>1, <1>3, Z3
  <1>5. len + SectorSize - 1 = k * SectorSize + (SectorSize - 1)
    BY <1>1, <1>3, Z3
  <1>6. SectorSize - 1 \in 0..(SectorSize - 1)
    BY <1>1
  <1>7. (k * SectorSize + (SectorSize - 1)) \div SectorSize = k
    BY <1>1, <1>6, Arith!DivModUnique
  <1>8. Sectors(len) = k
    BY <1>5, <1>7 DEF Sectors
  <1>9. len = SectorSize * k
    BY <1>1, <1>3, Z3
  <1> QED  BY <1>2, <1>4, <1>8, <1>9

Installed(a, c, x, y) == <<a, c>> \o Tail(x \o y)

(* The second source's sectors follow the two that are kept and the rest of *)
(* the first source.                                                        *)
LEMMA StageTwo ==
  ASSUME NEW x \in Seq(Cuts), Len(x) # 0, NEW y \in Seq(Cuts), NEW a, NEW c
  PROVE  /\ Len(Installed(a, c, x, y)) = Len(x) + Len(y) + 1
         /\ \A i \in 1..Len(y) : Installed(a, c, x, y)[Len(x) + i + 1] = y[i]
  <1>0. PICK j \in Nat \ {0}, k \in Nat : j = Len(x) /\ k = Len(y)
    OBVIOUS
  <1>1. PICK S : S = Cuts \cup {a, c}
    OBVIOUS
  <1>2. x \in Seq(S) /\ y \in Seq(S) /\ Len(x) = j /\ Len(y) = k
    <2>1. Cuts \subseteq S
      BY <1>1
    <2> QED  BY <1>0, <2>1
  <1>3. PICK s : s = x \o y
    OBVIOUS
  <1>4. /\ s \in Seq(S) /\ Len(s) = j + k
        /\ \A i \in 1..j + k : s[i] = IF i <= j THEN x[i] ELSE y[i - j]
    BY <1>2, <1>3, ConcatProperties
  <1>5. s # <<>>
    BY <1>4
  <1>6. PICK t : t = Tail(s)
    OBVIOUS
  <1>7. /\ t \in Seq(S) /\ Len(t) = j + k - 1
        /\ \A i \in 1..j + k - 1 : t[i] = s[i + 1]
    BY <1>4, <1>5, <1>6, HeadTailProperties
  <1>8. PICK h : h = <<a, c>>
    OBVIOUS
  <1>9. h \in Seq(S) /\ Len(h) = 2
    BY <1>1, <1>8
  <1>10. PICK all : all = h \o t
    OBVIOUS
  <1>11. /\ Len(all) = 2 + (j + k - 1)
         /\ \A i \in 1..2 + (j + k - 1) : all[i] = IF i <= 2 THEN h[i] ELSE t[i - 2]
    <2>1. /\ Len(all) = Len(h) + Len(t)
          /\ \A i \in 1..Len(h) + Len(t) : all[i] = IF i <= Len(h) THEN h[i] ELSE t[i - Len(h)]
      BY ONLY <1>7, <1>9, <1>10, ConcatProperties
    <2> QED  BY <1>7, <1>9, <2>1
  <1>12. ASSUME NEW i \in 1..k PROVE all[j + i + 1] = y[i]
    <2>1. j + i + 1 \in 1..2 + (j + k - 1) /\ ~(j + i + 1 <= 2) /\ (j + i + 1) - 2 = j + i - 1
      OBVIOUS
    <2>2. all[j + i + 1] = t[j + i - 1]
      BY <1>11, <2>1
    <2>3. j + i - 1 \in 1..j + k - 1 /\ (j + i - 1) + 1 = j + i
      OBVIOUS
    <2>4. t[j + i - 1] = s[j + i]
      BY <1>7, <2>3
    <2>5. j + i \in 1..j + k /\ ~(j + i <= j) /\ (j + i) - j = i
      OBVIOUS
    <2> QED  BY <1>4, <2>2, <2>4, <2>5
  <1>13. Installed(a, c, x, y) = all
    BY <1>3, <1>6, <1>8, <1>10 DEF Installed
  <1>14. Len(all) = Len(x) + Len(y) + 1
    BY <1>0, <1>11
  <1>15. \A i \in 1..Len(y) : all[Len(x) + i + 1] = y[i]
    BY <1>0, <1>12
  <1> QED  BY ONLY <1>13, <1>14, <1>15

LEMMA MultiIs ==
  ASSUME NEW blob, blob.len \in Nat, blob.len >= 2 * SectorSize, blob.len % SectorSize = 0,
         NEW made \in {SpliceFat32Multi(Reserved, blob), SpliceNtfsMulti(Reserved, blob)}
  PROVE  made.ok /\ \E a, c : made.sectors = <<a, c>> \o Tail(blob.sectors)
  <1> DEFINE checks == MultiChecks(Reserved, blob)
             both == { << Fat32Sector(Reserved.sectors[1], blob.sectors[1]), Reserved.sectors[2] >>
                         \o Tail(blob.sectors),
                       << Keeping(NtfsKept, Reserved.sectors[1], blob.sectors[1]), Reserved.sectors[2] >>
                         \o Tail(blob.sectors) }
  <1>1. DOMAIN checks = 1..3
    BY DEF MultiChecks
  <1>2. /\ ~checks[1][1] /\ checks[2][1] = (blob.len = 0)
        /\ checks[3][1] = (blob.len < 2 * SectorSize \/ blob.len % SectorSize # 0)
    BY DEF MultiChecks, Reserved, Bytes
  <1>3. PICK sectors \in both : made = Verdict(checks, sectors)
    BY DEF SpliceFat32Multi, SpliceNtfsMulti
  <1>4. blob.len # 0 /\ ~(blob.len < 2 * SectorSize)
    BY SpliceAssumption
  <1>5. \E a, c : sectors = <<a, c>> \o Tail(blob.sectors)
    OBVIOUS
  <1> HIDE DEF checks, both
  <1>6. ~checks[1][1] /\ ~checks[2][1] /\ ~checks[3][1]
    BY <1>2, <1>4, Zenon
  <1>7. Verdict(checks, sectors).ok
    BY <1>1, <1>6, VerdictIs
  <1>8. Verdict(checks, sectors) = [ok |-> TRUE, sectors |-> sectors]
    BY <1>1, <1>7, VerdictIs
  <1>9. Verdict(checks, sectors).sectors = sectors
    BY <1>8
  <1> QED  BY <1>3, <1>5, <1>7, <1>9, Zenon

(* What was assembled of two sources can be installed, and its second       *)
(* source then starts after as many sectors as its first one has.           *)
THEOREM MultiFits == Spec => []MultiInstallable
  <1>1. /\ "multi" \in Names /\ Parts["multi"] = 2 /\ Multiple = SectorSize
        /\ SectorSize \in Nat \ {0}
    BY CrateAssumption, SpliceAssumption
  <1>2. ASSUME IInv, Built, Assembled("multi"), NEW blob, blob = Blob("multi"),
               NEW made \in {SpliceFat32Multi(Reserved, blob), SpliceNtfsMulti(Reserved, blob)},
               NEW q, q = lib["multi"], NEW m, m = q[1].len, NEW n, n = q[2].len
        PROVE  /\ made.ok /\ blob.len = SectorSize * Len(blob.sectors)
               /\ Len(made.sectors) = m \div SectorSize + n \div SectorSize + 1
               /\ \A i \in 1..(n \div SectorSize) :
                    made.sectors[m \div SectorSize + i + 1] = Made(<<q[2], i>>)
    <2>1. ~embed => q = <<>>
      BY <1>1, <1>2, BlobIs
    <2>2. embed
      BY <1>2, <2>1 DEF Assembled
    <2>3. Complete(TRUE, "multi", q) /\ q \in Seq(Pieces) /\ Assembly(q)
      BY <1>1, <1>2, <2>2, BlobIs DEF Assembled, Assembly
    <2>4. Len(q) = 2 /\ Stages("multi", q) /\ DOMAIN q = {1, 2}
      <3>1. Len(q) = Parts["multi"] /\ Stages("multi", q)
        BY <1>1, <2>3, Substance
      <3> QED  BY <1>1, <2>3, <3>1
    <2>6. /\ m \in Nat \ {0} /\ m % SectorSize = 0 /\ n \in Nat \ {0} /\ n % SectorSize = 0
      BY <1>1, <1>2, <2>4 DEF Stages
    <2>7. q[1] \in Pieces /\ q[2] \in Pieces
      BY <2>3, <2>4
    <2>8. PICK j, k : j = Sectors(m) /\ k = Sectors(n)
      OBVIOUS
    <2>9. /\ j \in Nat \ {0} /\ m = SectorSize * j /\ m \div SectorSize = j
          /\ k \in Nat \ {0} /\ n = SectorSize * k /\ n \div SectorSize = k
      BY <2>6, <2>8, WholeSectors
    <2>10. PICK x, y : x = Cut(q[1]) /\ y = Cut(q[2])
      OBVIOUS
    <2>11. x \in Seq(Cuts) /\ Len(x) = j /\ y \in Seq(Cuts) /\ Len(y) = k
      BY <1>2, <2>6, <2>7, <2>8, <2>10, CutIs
    <2>12. blob.len = m + n /\ blob.sectors = x \o y
      BY <1>1, <1>2, <2>2, <2>4, <2>10, BlobIs
    <2>13. Len(blob.sectors) = j + k
      <3>1. Len(x \o y) = j + k
        BY <2>11
      <3> QED  BY <2>12, <3>1
    <2>14. blob.len = SectorSize * (j + k) /\ blob.len >= 2 * SectorSize /\ blob.len \in Nat
      BY <1>1, <2>9, <2>12, Z3
    <2>15. blob.len % SectorSize = 0
      <3>1. 0 \in 0..(SectorSize - 1) /\ j + k \in Nat
        BY <1>1, <2>9
      <3>2. ((j + k) * SectorSize + 0) % SectorSize = 0
        BY <1>1, <3>1, Arith!DivModUnique
      <3>3. blob.len = (j + k) * SectorSize + 0
        BY <1>1, <2>9, <2>14, Z3
      <3> QED  BY <3>2, <3>3
    <2>16. made.ok /\ \E a, c : made.sectors = <<a, c>> \o Tail(blob.sectors)
      BY <1>2, <2>14, <2>15, MultiIs
    <2>17. PICK a, c : made.sectors = <<a, c>> \o Tail(x \o y)
      BY <2>12, <2>16
    <2>18. Len(made.sectors) = j + k + 1 /\ \A i \in 1..k : made.sectors[j + i + 1] = y[i]
      <3>1. Len(x) # 0 /\ x \in Seq(Cuts) /\ y \in Seq(Cuts)
        BY <2>9, <2>11
      <3>2. /\ Len(Installed(a, c, x, y)) = Len(x) + Len(y) + 1
            /\ \A i \in 1..Len(y) : Installed(a, c, x, y)[Len(x) + i + 1] = y[i]
        BY <3>1, StageTwo
      <3> QED  BY <2>11, <2>17, <3>2 DEF Installed
    <2>19. \A i \in 1..k : y[i] = Made(<<q[2], i>>)
      <3>1. y = [i \in 1..k |-> Made(<<q[2], i>>)]
        BY <1>2, <2>8, <2>10 DEF Cut, Sectors
      <3> QED  BY <3>1
    <2> QED  BY <2>9, <2>13, <2>14, <2>16, <2>18, <2>19
  <1>3. IInv => MultiInstallable
    BY <1>2 DEF MultiInstallable
  <1> QED  BY <1>3, Invariance, PTL

=============================================================================
