----------------------------- MODULE BuildScript -----------------------------
(* build.rs and src/blobs.rs, and the cargo that runs them: where the bytes *)
(* of the embedded boot records come from, while a developer edits sources, *)
(* installs or removes nasm, and builds with and without the feature        *)
(* embed-boot-asm.                                                          *)
EXTENDS Integers, Sequences, SequencesExt

CONSTANTS
  Multiple,    \* 512, of which a multi-sector blob has whole ones
  Blobs,       \* the blobs, in the order main builds them
  Parts,       \* blob -> its source files: 1, or 2 for a multi-sector blob
  Contents(_), \* file -> what an edit may make of its length; see below
  Origin,      \* the checkout: file -> length
  MaxEdits     \* bound: edits, and changes of nasm

(* The length of a file that is not there, and of a source that does not    *)
(* assemble.  The length of a good source is that of its assembled bytes.   *)
Absent == -2
Broken == -1

Names == ToSet(Blobs)
Sources(b) == {<<b, i>> : i \in 1..Parts[b]}
Prebuilt(b) == <<b, 0>>
Files == UNION {Sources(b) \cup {Prebuilt(b)} : b \in Names}

Lengths(f) == Contents(f) \cup {Origin[f]}

ASSUME BuildAssumption ==
  /\ Multiple \in Nat \ {0} /\ MaxEdits \in Nat
  /\ Blobs \in Seq(Names) /\ "mbr_xp" \in Names
  /\ Parts \in [Names -> {1, 2}]
  /\ \A f \in Files : Lengths(f) \subseteq Nat \cup {Absent, Broken}
  /\ \A b \in Names : Broken \notin Lengths(Prebuilt(b))

VARIABLES
  file,     \* file -> [rev, len]: when it was last changed, and what it is
  nasm,     \* [rev, on]: when it came or went last, and whether it is on PATH
  edits,    \* how often anything was changed
  pc,
  embed,    \* the feature, in the build that runs or ran last
  since,    \* "edits" when that build began
  nasmOk,   \* nasm_ok
  todo,     \* what is left of main's two loops
  combined, \* build_multi's vector
  printed,  \* the rerun-if-changed lines of the script that runs
  out,      \* OUT_DIR of each feature set: blob -> pieces
  tracked,  \* the lines of the last script of each feature set
  touched,  \* what changed since that script was started
  ran,      \* whether it succeeded
  lib       \* the crate of the last build that ended well
devVars == <<file, nasm, edits>>
scriptVars == <<embed, since, nasmOk, todo, combined, printed>>
cargoVars == <<out, tracked, touched, ran, lib>>
vars == <<devVars, pc, scriptVars, cargoVars>>

Exists(f) == file[f].len # Absent
Piece(f) == [file |-> f, rev |-> file[f].rev, len |-> file[f].len]
Empty == [b \in Names |-> <<>>]

Init ==
  /\ file = [f \in Files |-> [rev |-> 0, len |-> Origin[f]]]
  /\ nasm \in [rev : {0}, on : BOOLEAN] /\ edits = 0
  /\ pc = "idle" /\ embed = TRUE /\ since = 0
  /\ nasmOk = FALSE /\ todo = <<>> /\ combined = <<>> /\ printed = {}
  /\ out = [e \in BOOLEAN |-> Empty] /\ lib = Empty
  /\ tracked = [e \in BOOLEAN |-> {}] /\ touched = [e \in BOOLEAN |-> {}]
  /\ ran = [e \in BOOLEAN |-> FALSE]

(* The developer, at any time, while a build runs too. *)
Edit(f, len) ==
  /\ edits < MaxEdits /\ edits' = edits + 1
  /\ file' = [file EXCEPT ![f] = [rev |-> edits', len |-> len]]
  /\ touched' = [e \in BOOLEAN |-> touched[e] \cup {f}]
  /\ UNCHANGED <<nasm, pc, scriptVars, out, tracked, ran, lib>>
ToggleNasm ==
  /\ edits < MaxEdits /\ edits' = edits + 1
  /\ nasm' = [rev |-> edits', on |-> ~nasm.on]
  /\ UNCHANGED <<file, pc, scriptVars, cargoVars>>

(* cargo runs the script again if it has not succeeded, or if a file that   *)
(* it named (any file, if it named none) has changed since it was started.  *)
Stale(e) ==
  \/ ~ran[e]
  \/ tracked[e] = {} /\ touched[e] # {}
  \/ \E f \in tracked[e] : f \in touched[e] \/ ~Exists(f)

(* main: nasm is looked for once. *)
Cargo(e) ==
  /\ pc \in {"idle", "done"}
  /\ embed' = e /\ since' = edits
  /\ \/ /\ ~Stale(e)
        /\ pc' = "compile"
        /\ UNCHANGED <<nasmOk, todo, combined, printed, touched>>
     \/ /\ Stale(e)
        /\ pc' = "script"
        /\ nasmOk' = (e /\ nasm.on)
        /\ todo' = Blobs /\ combined' = <<>> /\ printed' = {}
        /\ touched' = [touched EXCEPT ![e] = {}]
  /\ UNCHANGED <<devVars, out, tracked, ran, lib>>

(* A blob is written, and the next one's turn comes; after the last one the *)
(* script ends well.                                                        *)
WriteBlob(pieces, lines) ==
  /\ out' = [out EXCEPT ![embed][Head(todo)] = pieces]
  /\ todo' = Tail(todo) /\ combined' = <<>> /\ printed' = lines
  /\ IF Len(todo) = 1
     THEN /\ pc' = "compile"
          /\ tracked' = [tracked EXCEPT ![embed] = lines]
          /\ ran' = [ran EXCEPT ![embed] = TRUE]
     ELSE UNCHANGED <<pc, tracked, ran>>
Panic ==
  /\ pc' = "idle"
  /\ ran' = [ran EXCEPT ![embed] = FALSE]
  /\ todo' = <<>> /\ combined' = <<>> /\ printed' = {}
  /\ UNCHANGED <<out, tracked>>
KeepScript == UNCHANGED <<devVars, embed, since, nasmOk, touched, lib>>

(* Whether the sources are there is asked before the first is assembled.    *)
MutFromSource(b) == nasm.on /\ (combined # <<>> \/ \A f \in Sources(b) : Exists(f))
FromSource(b) == nasmOk /\ (combined # <<>> \/ \A f \in Sources(b) : Exists(f))

MutWriteEmpty ==
  /\ pc = "script" /\ ~embed
  /\ WriteBlob(IF Parts[Head(todo)] = 1 THEN <<Piece(Prebuilt(Head(todo)))>> ELSE <<>>, printed)
  /\ KeepScript
WriteEmpty ==
  /\ pc = "script" /\ ~embed
  /\ WriteBlob(<<>>, printed)
  /\ KeepScript

(* One nasm call; only build_multi looks at the length of what comes of it. *)
MutAssembles(f) == nasm.on /\ file[f].len >= 0
Assembles(f) ==
  /\ nasm.on /\ file[f].len >= 0
  /\ Parts[f[1]] > 1 => file[f].len > 0 /\ file[f].len % Multiple = 0
MutLines(f) == IF f[2] < 2 THEN printed \cup {f} ELSE printed    \* only sector0
Lines(f) == printed \cup {f}
Assemble ==
  /\ pc = "script" /\ embed /\ FromSource(Head(todo))
  /\ LET b == Head(todo)
         f == <<b, Len(combined) + 1>>
         all == Append(combined, Piece(f))
     IN  \/ Assembles(f) /\ Len(all) = Parts[b] /\ WriteBlob(all, Lines(f))
         \/ /\ Assembles(f) /\ Len(all) < Parts[b]
            /\ combined' = all /\ printed' = Lines(f)
            /\ UNCHANGED <<pc, todo, out, tracked, ran>>
         \/ ~Assembles(f) /\ Panic
  /\ KeepScript

CopyPrebuilt ==
  /\ pc = "script" /\ embed /\ ~FromSource(Head(todo))
  /\ LET f == Prebuilt(Head(todo))
     IN  \/ Exists(f) /\ WriteBlob(<<Piece(f)>>, printed \cup {f})
         \/ ~Exists(f) /\ Panic
  /\ KeepScript

(* include_bytes! of the eight files. *)
Compile ==
  /\ pc = "compile"
  /\ pc' = "done"
  /\ lib' = out[embed]
  /\ UNCHANGED <<devVars, scriptVars, out, tracked, touched, ran>>

Next ==
  \/ \E f \in Files : \E len \in Contents(f) : Edit(f, len)
  \/ ToggleNasm
  \/ \E e \in BOOLEAN : Cargo(e)
  \/ WriteEmpty \/ Assemble \/ CopyPrebuilt \/ Compile
Spec == Init /\ [][Next]_vars

(* What a blob of the crate is: how long, and how it was made. *)
Length(b) == FoldLeft(LAMBDA sum, piece : sum + piece.len, 0, lib[b])
Assembled(b) == \E i \in DOMAIN lib[b] : lib[b][i].file[2] > 0
embedded == Length("mbr_xp") # 0
=============================================================================
