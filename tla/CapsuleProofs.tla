--------------------------- MODULE CapsuleProofs ---------------------------
(***************************************************************************)
(* Proofs of Capsule's invariants and of its refinement of AuditedIndex.   *)
(***************************************************************************)
EXTENDS Capsule, SharedFacts

USE DEF target, history

-----------------------------------------------------------------------------
(* The inductive invariant.                                                *)

EntryType == [rec     : Records,
              payload : Contents \cup {Garbled},
              chunk   : Contents \cup {Garbled},
              kind    : {"own", Garbled}]

LocType == [left : Seq(Records), entries : Seq(EntryType),
            sig : Schemes \cup {""}, key : Keys \cup {Null}, bytes : Contents \cup {Null}]

PCs == {"idle", "init", "mount", "insert"} \cup ExportSteps

LogType == [op : {"vault.init", "record.mount"}, soul : {Null, Soul}, rec : Records \cup {Null}]

Typing ==
  /\ memory \in Seq(Records)
  /\ source \in [Records -> Contents \cup {Null}]
  /\ capsule \in [Records -> Contents] /\ files \in [Records -> Contents]
  /\ db \in {"absent", "partial", "ready"}
  /\ rows \in [Records -> [status : {"none", "active"}, soul : {Null, Soul}]]
  /\ log \in Seq(LogType)
  /\ pc \in [Procs -> PCs]
  /\ loc \in [Procs -> LocType]
  /\ calls \in 0..MaxCalls /\ faults \in 0..MaxFaults

\* The source has a payload file for its live records and for no other.
SourceKept ==
  /\ Distinct(memory)
  /\ \A r \in Records : r \in Live <=> source[r] \notin {Null, Absent}

\* An entry as an export writes it.
Honest(e) == e.payload = Enc(e.rec, OldKey) /\ e.kind = "own" /\ e.chunk \in Contents \ {Absent}

\* What an export has collected and has left are records listed once each, put
\* before it listed them.
Exporting(p) ==
  /\ loc[p].sig \in Schemes
  /\ \A i \in 1..Len(loc[p].entries) : Honest(loc[p].entries[i])
  /\ Distinct(Graph(loc[p].entries) \o loc[p].left)
  /\ \A i \in 1..Len(loc[p].left) : source[loc[p].left[i]] # Null
  /\ pc[p] \in {"copy", "fill", "hash"} => loc[p].left # <<>>
  /\ pc[p] = "fill" => loc[p].bytes \in Contents
  /\ pc[p] \in {"manifest", "write"} => loc[p].left = <<>> /\ loc[p].entries # <<>>

Exports == \A p \in Procs : pc[p] \in ExportSteps => Exporting(p)

\* The export that has overlapped no other is the only one under way.
Alone == \A p, q \in Procs : lone = p /\ pc[p] \in ExportSteps /\ pc[q] \in ExportSteps => q = p

\* A manifest as an export writes it.
Original(w) ==
  /\ w = NewManifest(w.sig, w.entries)
  /\ w.sig \in Schemes
  /\ w.entries \in Seq(EntryType) /\ w.entries # <<>>
  /\ \A i \in 1..Len(w.entries) : Honest(w.entries[i])
  /\ Distinct(w.graph)

\* A manifest m that was w before some of its fields were damaged.
Derived(m, w) ==
  /\ m = [meta |-> m.meta, sig |-> m.sig, entries |-> m.entries, graph |-> m.graph, root |-> m.root]
  /\ m.meta \in {w.meta, Garbled} /\ m.sig \in {w.sig, Garbled} /\ m.graph \in {w.graph, Garbled}
  /\ m.root \in {w.root, LeafHash(Garbled)}
  /\ m.entries \in Seq(EntryType) /\ Len(m.entries) = Len(w.entries)
  /\ \A i \in 1..Len(m.entries) : /\ m.entries[i].rec = w.entries[i].rec
                                  /\ m.entries[i].payload \in {w.entries[i].payload, Garbled}
                                  /\ m.entries[i].chunk \in {w.entries[i].chunk, Garbled}

Manifests ==
  /\ \A w \in written : Original(w)
  /\ alone \subseteq written
  /\ \A m \in manifest : \E w \in written : Derived(m, w)

ExportInv == Typing /\ SourceKept /\ Exports /\ Alone /\ Manifests

\* Some export has just opened, and emptied, the copy of r.
Filling(r) == \E p \in Procs : pc[p] = "fill" /\ Head(loc[p].left) = r

\* An entry whose payload was copied whole, and one whose copy is there.
Copied(e) == e.chunk = Enc(e.rec, OldKey)
Kept(e) == capsule[e.rec] # Absent

\* While nothing was damaged or killed, the source's payloads are its own, and so
\* are the copies, but for those being written; an export alone has hashed none
\* of these.
SourceWhole == \A r \in Records : source[r] \in {Null, Absent, Enc(r, OldKey)}

CopiesWhole ==
  /\ \A p \in Procs : pc[p] = "fill" => loc[p].bytes = Enc(Head(loc[p].left), OldKey)
  /\ \A r \in Records : capsule[r] \in {Absent, Enc(r, OldKey)} \/ Filling(r)

EntriesWhole ==
  \A p \in Procs : pc[p] \in ExportSteps =>
    \A i \in 1..Len(loc[p].entries) :
      Kept(loc[p].entries[i]) /\ (lone = p => Copied(loc[p].entries[i]))

ManifestsWhole ==
  /\ \A m \in manifest : m \in written /\ \A i \in 1..Len(m.entries) : Kept(m.entries[i])
  /\ \A m \in alone : \A i \in 1..Len(m.entries) : Copied(m.entries[i])

Undamaged == faults = 0 => SourceWhole /\ CopiesWhole /\ EntriesWhole /\ ManifestsWhole

\* What is logged are the first records of w, and left the others.
Mounted(w, left) ==
  /\ Len(log) + Len(left) = Len(w.entries) + 1
  /\ \A i \in 2..Len(log) : log[i].rec = w.entries[i - 1].rec
  /\ \A i \in 1..Len(left) : left[i] = w.entries[Len(log) + i - 1].rec

Mounters == { p \in Procs : pc[p] \in {"mount", "insert"} }

MountInv ==
  /\ db = "ready" <=> log # <<>>
  /\ \A p \in Procs : pc[p] = "init" => loc[p].left # <<>> /\ \E w \in written : loc[p].left = Graph(w.entries)
  /\ \A p \in Mounters : loc[p].left # <<>> /\ log # <<>> /\ \E w \in written : Mounted(w, loc[p].left)
  /\ \A p, q \in Mounters : p = q
  /\ log # <<>> => \E w \in written : /\ Len(log) <= Len(w.entries) + 1
                                      /\ \A i \in 2..Len(log) : log[i].rec = w.entries[i - 1].rec
  /\ \A p \in Procs : pc[p] = "insert" => LET r == Head(loc[p].left) IN
       files[r] = Enc(r, NewKey) /\ rows[r].status = "none"
  /\ \A r \in Records : rows[r].status = "active" => files[r] = Enc(r, NewKey)

CapsuleInv == ExportInv /\ Undamaged /\ MountInv

USE DEF PCs, ExportSteps

-----------------------------------------------------------------------------
(* Constants and types.                                                    *)

LEMMA Markers ==
  /\ Null \notin Contents /\ Garbled \notin Contents /\ Absent \in Contents /\ Damaged \in Contents
  <1>1. ASSUME NEW x \in [rec : Records \cup {Damaged}, key : {OldKey, NewKey}]
        PROVE  x # Null /\ x # Garbled
    <2>1. x.rec \in Records \cup {Damaged} /\ x.key \in Keys \cup {NewKey} /\ x = Enc(x.rec, x.key)
      BY CapsuleConstants DEF Enc
    <2> QED
      BY <2>1, CapsuleConstants
  <1> QED
    BY <1>1, CapsuleConstants DEF Contents

LEMMA EncFacts ==
  ASSUME NEW r \in Records, NEW k \in {OldKey, NewKey}
  PROVE  /\ Enc(r, k) \in Contents
         /\ Enc(r, k) # Absent /\ Enc(r, k) # Damaged /\ Enc(r, k) # Null /\ Enc(r, k) # Garbled
  <1>1. Enc(r, k) \in Contents
    BY DEF Enc, Contents
  <1>2. k \in Keys \cup {NewKey}
    BY CapsuleConstants
  <1> QED
    BY <1>1, <1>2, CapsuleConstants

LEMMA BlankType == Blank \in LocType
  <1>1. <<>> \in Seq(Records) /\ <<>> \in Seq(EntryType)
    BY EmptySeq
  <1> QED
    BY <1>1 DEF Blank, LocType

\* Where a command is and what it holds change for it alone.
LEMMA SetLoc ==
  ASSUME Typing, NEW p \in Procs, NEW x, NEW l \in LocType,
         x \in PCs,
         pc' = [pc EXCEPT ![p] = x], loc' = [loc EXCEPT ![p] = l]
  PROVE  /\ pc' \in [Procs -> PCs]
         /\ loc' \in [Procs -> LocType]
         /\ pc'[p] = x /\ loc'[p] = l
         /\ \A q \in Procs : q # p => pc'[q] = pc[q] /\ loc'[q] = loc[q]
  BY DEF Typing

LEMMA LocFields ==
  ASSUME Typing, NEW p \in Procs
  PROVE  /\ loc[p] \in LocType
         /\ loc[p].left \in Seq(Records) /\ loc[p].entries \in Seq(EntryType)
         /\ loc[p].left # <<>> => /\ Head(loc[p].left) \in Records /\ Tail(loc[p].left) \in Seq(Records)
                                  /\ Head(loc[p].left) = loc[p].left[1] /\ 1 \in 1..Len(loc[p].left)
  <1>1. loc[p] \in LocType /\ loc[p].left \in Seq(Records) /\ loc[p].entries \in Seq(EntryType)
    BY DEF Typing, LocType
  <1>2. ASSUME loc[p].left # <<>>
        PROVE  /\ Head(loc[p].left) \in Records /\ Tail(loc[p].left) \in Seq(Records)
               /\ Head(loc[p].left) = loc[p].left[1] /\ 1 \in 1..Len(loc[p].left)
    BY <1>1, <1>2, HeadTailProperties, EmptySeq, LenProperties
  <1> QED
    BY <1>1, <1>2

\* The next entry that an export makes.
LEMMA EntryFacts ==
  ASSUME Typing, NEW r \in Records, capsule[r] # Absent
  PROVE  /\ Entry(r) \in EntryType /\ Honest(Entry(r))
         /\ Entry(r).rec = r /\ Entry(r).chunk = capsule[r]
  <1>1. capsule[r] \in Contents
    BY DEF Typing
  <1> QED
    BY <1>1, EncFacts DEF Entry, EntryType, Honest

LEMMA GraphFacts ==
  ASSUME NEW e \in Seq(EntryType)
  PROVE  /\ Graph(e) \in Seq(Records) /\ Len(Graph(e)) = Len(e) /\ Len(e) \in Nat
         /\ \A i \in 1..Len(e) : Graph(e)[i] = e[i].rec /\ e[i] \in EntryType /\ e[i].rec \in Records
  <1>0. Len(e) \in Nat /\ \A i \in 1..Len(e) : e[i] \in EntryType
    BY LenProperties, ElementOfSeq
  <1>a. \A x \in EntryType : x.rec \in Records
    BY DEF EntryType
  <1>1. Len(e) \in Nat /\ \A i \in 1..Len(e) : e[i] \in EntryType /\ e[i].rec \in Records
    BY <1>0, <1>a
  <1>2. Graph(e) \in [1..Len(e) -> Records]
    BY <1>1 DEF Graph
  <1>3. Graph(e) \in Seq(Records)
    BY <1>1, <1>2, SeqDef
  <1>4. Len(Graph(e)) = Len(e)
    BY <1>1, <1>2, <1>3, LenProperties
  <1> QED
    BY <1>1, <1>3, <1>4 DEF Graph

\* The loop over the records keeps what is collected and left as it is.
LEMMA GraphAppend ==
  ASSUME NEW e \in Seq(EntryType), NEW x \in EntryType, NEW left \in Seq(Records),
         left # <<>>, x.rec = Head(left)
  PROVE  Graph(Append(e, x)) \o Tail(left) = Graph(e) \o left
  <1>1. /\ Append(e, x) \in Seq(EntryType) /\ Len(Append(e, x)) = Len(e) + 1
        /\ \A i \in 1..Len(e) : Append(e, x)[i] = e[i]
        /\ Append(e, x)[Len(e) + 1] = x
    BY AppendProperties
  <1>2. Head(left) \in Records
    BY HeadTailProperties
  <1>3. /\ Append(Graph(e), Head(left)) \in Seq(Records)
        /\ Len(Append(Graph(e), Head(left))) = Len(e) + 1
        /\ \A i \in 1..Len(e) : Append(Graph(e), Head(left))[i] = Graph(e)[i]
        /\ Append(Graph(e), Head(left))[Len(e) + 1] = Head(left)
    <2>1. Graph(e) \in Seq(Records) /\ Len(Graph(e)) = Len(e)
      BY GraphFacts
    <2> QED
      BY <1>2, <2>1, AppendProperties
  <1>4. /\ Graph(Append(e, x)) \in Seq(Records) /\ Len(Graph(Append(e, x))) = Len(e) + 1
        /\ \A i \in 1..(Len(e) + 1) : Graph(Append(e, x))[i] = Append(e, x)[i].rec
    BY <1>1, GraphFacts
  <1>5. Graph(Append(e, x)) = Append(Graph(e), Head(left))
    <2>1. Len(e) \in Nat /\ \A i \in 1..Len(e) : Graph(e)[i] = e[i].rec
      BY GraphFacts
    <2>2. ASSUME NEW i \in 1..(Len(e) + 1)
          PROVE  Graph(Append(e, x))[i] = Append(Graph(e), Head(left))[i]
      <3>1. CASE i = Len(e) + 1
        <4>1. Graph(Append(e, x))[i] = Append(e, x)[i].rec
          BY <1>4
        <4> QED
          BY <1>1, <1>3, <3>1, <4>1
      <3>2. CASE i \in 1..Len(e)
        <4>1. Graph(Append(e, x))[i] = Append(e, x)[i].rec
          BY <1>4
        <4>2. Append(e, x)[i] = e[i]
          BY <1>1, <3>2
        <4>3. Append(Graph(e), Head(left))[i] = Graph(e)[i]
          BY <1>3, <3>2
        <4>4. Graph(e)[i] = e[i].rec
          BY <2>1, <3>2
        <4> QED
          BY <4>1, <4>2, <4>3, <4>4
      <3>3. i = Len(e) + 1 \/ i \in 1..Len(e)
        BY <2>1
      <3> QED
        BY <3>1, <3>2, <3>3
    <2> QED
      BY <1>3, <1>4, <2>2, SeqEqual
  <1> QED
    BY <1>5, GraphFacts, MoveHead

-----------------------------------------------------------------------------
(* Typing.                                                                 *)

\* A step of one command, which leaves the others where they are.
LEMMA GotoTyped ==
  ASSUME Typing, NEW p \in Procs, NEW x, NEW l \in LocType,
         x \in PCs, Goto(p, x, l)
  PROVE  /\ pc' \in [Procs -> PCs]
         /\ loc' \in [Procs -> LocType] /\ calls' \in 0..MaxCalls
         /\ pc'[p] = x /\ loc'[p] = l
         /\ \A q \in Procs : q # p => pc'[q] = pc[q] /\ loc'[q] = loc[q]
  <1>1. calls' \in 0..MaxCalls
    BY DEF Typing, Goto
  <1> QED
    BY <1>1, SetLoc DEF Goto

LEMMA EndTyped ==
  ASSUME Typing, NEW p \in Procs, End(p)
  PROVE  /\ pc' \in [Procs -> PCs]
         /\ loc' \in [Procs -> LocType] /\ calls' \in 0..MaxCalls
         /\ pc'[p] = "idle" /\ loc'[p] = Blank
         /\ \A q \in Procs : q # p => pc'[q] = pc[q] /\ loc'[q] = loc[q]
  BY BlankType, GotoTyped DEF End

LEMMA BeginTyped ==
  ASSUME Typing, NEW p \in Procs, NEW x, NEW l \in LocType,
         x \in PCs, Begin(p, x, l)
  PROVE  /\ pc' \in [Procs -> PCs]
         /\ loc' \in [Procs -> LocType] /\ calls' \in 0..MaxCalls
         /\ pc'[p] = x /\ loc'[p] = l /\ pc[p] = "idle"
         /\ \A q \in Procs : q # p => pc'[q] = pc[q] /\ loc'[q] = loc[q]
  <1>1. calls' \in 0..MaxCalls /\ pc[p] = "idle"
    <2>1. calls \in 0..MaxCalls /\ calls < MaxCalls /\ calls' = calls + 1 /\ MaxCalls \in Nat
      BY CapsuleConstants DEF Typing, Begin
    <2> QED
      BY <2>1 DEF Begin
  <1> QED
    BY <1>1, SetLoc DEF Begin

LEMMA FaultTyped ==
  ASSUME Typing, Fault
  PROVE  faults' \in 0..MaxFaults /\ faults' # 0
  <1>1. faults \in 0..MaxFaults /\ faults < MaxFaults /\ faults' = faults + 1 /\ MaxFaults \in Nat
    BY CapsuleConstants DEF Typing, Fault
  <1> QED
    BY <1>1

\* What CopyOpen and CopyHash do when they go on.
OpenNext(p) ==
  LET r == Head(loc[p].left) IN
  /\ source[r] # Absent
  /\ capsule' = [capsule EXCEPT ![r] = Damaged]
  /\ Goto(p, "fill", [loc[p] EXCEPT !.bytes = source[r]])

HashNext(p) ==
  LET r == Head(loc[p].left)
      l == [loc[p] EXCEPT !.left = Tail(@), !.entries = Append(@, Entry(r))] IN
  /\ capsule[r] # Absent
  /\ Goto(p, IF l.left = <<>> THEN "manifest" ELSE "copy", l)

\* The steps of an export.
LEMMA ExportCases ==
  ASSUME NEW p, ExportNext(p)
  PROVE  /\ UNCHANGED <<memory, source, frozen, target, faults>>
         /\ \/ (\E sig \in Schemes : ListForExport(p, sig)) /\ UNCHANGED <<capsule, manifest, written, alone>>
            \/ pc[p] \in {"copy", "hash"} /\ End(p) /\ UNCHANGED <<capsule, manifest, history>>
            \/ pc[p] = "copy" /\ OpenNext(p) /\ UNCHANGED <<manifest, history>>
            \/ CopyFill(p) /\ UNCHANGED <<manifest, history>>
            \/ pc[p] = "hash" /\ HashNext(p) /\ UNCHANGED <<capsule, manifest, history>>
            \/ OpenManifest(p) /\ UNCHANGED <<capsule, history>>
            \/ WriteManifest(p) /\ UNCHANGED <<capsule, lone>>
  <1>1. CopyOpen(p) => pc[p] = "copy" /\ ((End(p) /\ UNCHANGED capsule) \/ OpenNext(p))
    BY DEF CopyOpen, OpenNext
  <1>2. CopyHash(p) => pc[p] = "hash" /\ (End(p) \/ HashNext(p))
    BY DEF CopyHash, HashNext
  <1> QED
    BY <1>1, <1>2 DEF ExportNext

LEMMA OpenFacts ==
  ASSUME Typing, NEW p \in Procs, pc[p] = "copy", Exporting(p), OpenNext(p)
  PROVE  LET r == Head(loc[p].left) IN
         /\ r \in Records /\ source[r] \in Contents \ {Absent} /\ source[r] \notin {Null, Absent}
         /\ pc'[p] = "fill" /\ loc'[p] = [loc[p] EXCEPT !.bytes = source[r]]
         /\ pc' \in [Procs -> PCs]
         /\ loc' \in [Procs -> LocType] /\ calls' \in 0..MaxCalls
         /\ capsule' \in [Records -> Contents] /\ capsule'[r] = Damaged
         /\ \A q \in Procs : q # p => pc'[q] = pc[q] /\ loc'[q] = loc[q]
         /\ \A x \in Records : x # r => capsule'[x] = capsule[x]
  <1> DEFINE r == Head(loc[p].left)
             l == [loc[p] EXCEPT !.bytes = source[r]]
  <1>1. r \in Records /\ loc[p] \in LocType
    BY LocFields DEF Exporting
  <1>2. source[r] \in Contents \ {Absent} /\ source[r] \notin {Null, Absent}
    <2>1. source[loc[p].left[1]] # Null /\ r = loc[p].left[1]
      BY LocFields DEF Exporting
    <2>2. source[r] # Absent
      BY DEF OpenNext
    <2> HIDE DEF r
    <2> QED
      BY <1>1, <2>1, <2>2 DEF Typing
  <1>3. Goto(p, "fill", l) /\ capsule' = [capsule EXCEPT ![r] = Damaged]
    BY DEF OpenNext
  <1> HIDE DEF r
  <1>4. l \in LocType
    BY <1>1, <1>2 DEF LocType
  <1> HIDE DEF l
  <1>5. /\ pc' \in [Procs -> PCs]
        /\ loc' \in [Procs -> LocType] /\ calls' \in 0..MaxCalls
        /\ pc'[p] = "fill" /\ loc'[p] = l
        /\ \A q \in Procs : q # p => pc'[q] = pc[q] /\ loc'[q] = loc[q]
    BY <1>3, <1>4, GotoTyped
  <1>6. /\ capsule' \in [Records -> Contents] /\ capsule'[r] = Damaged
        /\ \A y \in Records : y # r => capsule'[y] = capsule[y]
    BY <1>1, <1>3, Markers DEF Typing
  <1> QED
    BY <1>1, <1>2, <1>5, <1>6 DEF r, l

LEMMA FillFacts ==
  ASSUME Typing, NEW p \in Procs, Exporting(p), CopyFill(p)
  PROVE  LET r == Head(loc[p].left) IN
         /\ r \in Records /\ pc[p] = "fill"
         /\ pc'[p] = "hash" /\ loc'[p] = [loc[p] EXCEPT !.bytes = Null]
         /\ pc' \in [Procs -> PCs]
         /\ loc' \in [Procs -> LocType] /\ calls' \in 0..MaxCalls
         /\ capsule' \in [Records -> Contents] /\ capsule'[r] = loc[p].bytes
         /\ \A q \in Procs : q # p => pc'[q] = pc[q] /\ loc'[q] = loc[q]
         /\ \A x \in Records : x # r => capsule'[x] = capsule[x]
  <1> DEFINE r == Head(loc[p].left)
             l == [loc[p] EXCEPT !.bytes = Null]
  <1>1. pc[p] = "fill" /\ Goto(p, "hash", l) /\ capsule' = [capsule EXCEPT ![r] = loc[p].bytes]
    BY DEF CopyFill
  <1>2. r \in Records /\ loc[p] \in LocType /\ loc[p].bytes \in Contents
    BY <1>1, LocFields DEF Exporting
  <1> HIDE DEF r
  <1>3. l \in LocType
    BY <1>2 DEF LocType
  <1> HIDE DEF l
  <1>4. /\ pc' \in [Procs -> PCs]
        /\ loc' \in [Procs -> LocType] /\ calls' \in 0..MaxCalls
        /\ pc'[p] = "hash" /\ loc'[p] = l
        /\ \A q \in Procs : q # p => pc'[q] = pc[q] /\ loc'[q] = loc[q]
    BY <1>1, <1>3, GotoTyped
  <1>5. /\ capsule' \in [Records -> Contents] /\ capsule'[r] = loc[p].bytes
        /\ \A y \in Records : y # r => capsule'[y] = capsule[y]
    BY <1>1, <1>2 DEF Typing
  <1> QED
    BY <1>1, <1>2, <1>4, <1>5 DEF r, l

LEMMA HashFacts ==
  ASSUME Typing, NEW p \in Procs, pc[p] = "hash", Exporting(p), HashNext(p)
  PROVE  LET r == Head(loc[p].left) IN
         /\ r \in Records /\ capsule[r] # Absent
         /\ loc'[p].left = Tail(loc[p].left)
         /\ loc'[p].entries = Append(loc[p].entries, Entry(r))
         /\ loc'[p].sig = loc[p].sig
         /\ pc'[p] = IF Tail(loc[p].left) = <<>> THEN "manifest" ELSE "copy"
         /\ pc' \in [Procs -> PCs]
         /\ loc' \in [Procs -> LocType] /\ calls' \in 0..MaxCalls
         /\ \A q \in Procs : q # p => pc'[q] = pc[q] /\ loc'[q] = loc[q]
  <1> DEFINE r == Head(loc[p].left)
             l == [loc[p] EXCEPT !.left = Tail(@), !.entries = Append(@, Entry(r))]
  <1>1. r \in Records /\ Tail(loc[p].left) \in Seq(Records)
    BY LocFields DEF Exporting
  <1>2. capsule[r] # Absent
    BY DEF HashNext
  <1>3. Entry(r) \in EntryType
    BY <1>1, <1>2, EntryFacts
  <1>4. Append(loc[p].entries, Entry(r)) \in Seq(EntryType)
    BY <1>3, LocFields, AppendProperties
  <1>5. /\ l \in LocType /\ l.left = Tail(loc[p].left)
        /\ l.entries = Append(loc[p].entries, Entry(r)) /\ l.sig = loc[p].sig
    <2>1. loc[p] \in LocType
      BY LocFields
    <2> HIDE DEF r
    <2> QED
      BY <1>1, <1>4, <2>1 DEF LocType
  <1> DEFINE x == IF l.left = <<>> THEN "manifest" ELSE "copy"
  <1>6. Goto(p, x, l)
    BY DEF HashNext
  <1>7. x \in PCs
    BY DEF PCs, ExportSteps
  <1>8. x = IF Tail(loc[p].left) = <<>> THEN "manifest" ELSE "copy"
    BY <1>5
  <1> HIDE DEF l, x, r
  <1>9. /\ pc' \in [Procs -> PCs]
        /\ loc' \in [Procs -> LocType] /\ calls' \in 0..MaxCalls
        /\ pc'[p] = x /\ loc'[p] = l
        /\ \A q \in Procs : q # p => pc'[q] = pc[q] /\ loc'[q] = loc[q]
    BY <1>5, <1>6, <1>7, GotoTyped
  <1> QED
    BY <1>1, <1>2, <1>5, <1>8, <1>9 DEF r

LEMMA OpenManifestFacts ==
  ASSUME Typing, NEW p \in Procs, OpenManifest(p)
  PROVE  /\ pc[p] = "manifest" /\ pc'[p] = "write" /\ loc'[p] = loc[p] /\ manifest' = {}
         /\ pc' \in [Procs -> PCs]
         /\ loc' \in [Procs -> LocType] /\ calls' \in 0..MaxCalls
         /\ \A q \in Procs : q # p => pc'[q] = pc[q] /\ loc'[q] = loc[q]
  <1>1. pc[p] = "manifest" /\ manifest' = {} /\ Goto(p, "write", loc[p])
    BY DEF OpenManifest
  <1> QED
    BY <1>1, LocFields, GotoTyped

\* What MountFile does when it goes on.
FileNext(p) ==
  LET r == Head(loc[p].left) IN
  /\ capsule[r] = Enc(r, loc[p].key) /\ files[r] = Absent
  /\ files' = [files EXCEPT ![r] = Enc(r, NewKey)]
  /\ Goto(p, "insert", loc[p])

LEMMA MountFileCases ==
  ASSUME NEW p, MountFile(p)
  PROVE  /\ pc[p] = "mount" /\ UNCHANGED <<db, rows, log>>
         /\ (End(p) /\ UNCHANGED files) \/ FileNext(p)
  BY DEF MountFile, Decrypt, FileNext

LEMMA FileFacts ==
  ASSUME Typing, NEW p \in Procs, loc[p].left # <<>>, FileNext(p)
  PROVE  LET r == Head(loc[p].left) IN
         /\ r \in Records /\ pc'[p] = "insert" /\ loc'[p] = loc[p]
         /\ pc' \in [Procs -> PCs]
         /\ loc' \in [Procs -> LocType] /\ calls' \in 0..MaxCalls
         /\ files' \in [Records -> Contents] /\ files'[r] = Enc(r, NewKey) /\ files[r] = Absent
         /\ \A q \in Procs : q # p => pc'[q] = pc[q] /\ loc'[q] = loc[q]
         /\ \A x \in Records : x # r => files'[x] = files[x]
  <1> DEFINE r == Head(loc[p].left)
  <1>1. r \in Records
    BY LocFields
  <1>2. Enc(r, NewKey) \in Contents
    BY <1>1, EncFacts
  <1>3. files' = [files EXCEPT ![r] = Enc(r, NewKey)] /\ files[r] = Absent /\ Goto(p, "insert", loc[p])
    BY DEF FileNext
  <1> HIDE DEF r
  <1>4. /\ pc'[p] = "insert" /\ loc'[p] = loc[p]
        /\ pc' \in [Procs -> PCs]
        /\ loc' \in [Procs -> LocType] /\ calls' \in 0..MaxCalls
        /\ \A q \in Procs : q # p => pc'[q] = pc[q] /\ loc'[q] = loc[q]
    BY <1>3, LocFields, GotoTyped
  <1>5. /\ files' \in [Records -> Contents] /\ files'[r] = Enc(r, NewKey)
        /\ \A x \in Records : x # r => files'[x] = files[x]
    BY <1>1, <1>2, <1>3 DEF Typing
  <1> QED
    BY <1>1, <1>3, <1>4, <1>5 DEF r

LEMMA MountInsertFacts ==
  ASSUME Typing, NEW p \in Procs, loc[p].left # <<>>, MountInsert(p)
  PROVE  LET r == Head(loc[p].left) IN
         /\ r \in Records /\ pc[p] = "insert" /\ UNCHANGED <<db, files>>
         /\ \/ Len(loc[p].left) = 1 /\ pc'[p] = "idle" /\ loc'[p] = Blank
            \/ /\ Len(loc[p].left) # 1 /\ pc'[p] = "mount"
               /\ loc'[p].left = Tail(loc[p].left) /\ loc'[p].left # <<>>
         /\ pc' \in [Procs -> PCs]
         /\ loc' \in [Procs -> LocType] /\ calls' \in 0..MaxCalls
         /\ rows' = [rows EXCEPT ![r] = [status |-> "active", soul |-> Soul]]
         /\ rows' \in [Records -> [status : {"none", "active"}, soul : {Null, Soul}]]
         /\ rows'[r].status = "active"
         /\ \A x \in Records : x # r => rows'[x] = rows[x]
         /\ log' = Append(log, [op |-> "record.mount", soul |-> Soul, rec |-> r])
         /\ log' \in Seq(LogType) /\ Len(log') = Len(log) + 1 /\ Len(log) \in Nat
         /\ \A i \in 1..Len(log) : log'[i] = log[i]
         /\ log'[Len(log) + 1] = [op |-> "record.mount", soul |-> Soul, rec |-> r]
         /\ \A q \in Procs : q # p => pc'[q] = pc[q] /\ loc'[q] = loc[q]
  <1> DEFINE r == Head(loc[p].left)
             e == [op |-> "record.mount", soul |-> Soul, rec |-> r]
             l == [loc[p] EXCEPT !.left = Tail(@)]
  <1>1. r \in Records /\ Tail(loc[p].left) \in Seq(Records) /\ loc[p] \in LocType
    BY LocFields
  <1>2. e \in LogType
    BY <1>1 DEF LogType
  <1>3. l \in LocType /\ l.left = Tail(loc[p].left)
    BY <1>1 DEF LocType
  <1>4. /\ pc[p] = "insert" /\ UNCHANGED <<db, files>> /\ log' = Append(log, e)
        /\ rows' = [rows EXCEPT ![r] = [status |-> "active", soul |-> Soul]]
        /\ (Len(loc[p].left) = 1 /\ End(p)) \/ (Len(loc[p].left) # 1 /\ Goto(p, "mount", l))
    BY DEF MountInsert
  <1> HIDE DEF r, e, l
  <1>5. /\ log' \in Seq(LogType) /\ Len(log') = Len(log) + 1 /\ Len(log) \in Nat
        /\ \A i \in 1..Len(log) : log'[i] = log[i]
        /\ log'[Len(log) + 1] = e
    <2>1. log \in Seq(LogType)
      BY DEF Typing
    <2> QED
      BY <1>2, <1>4, <2>1, AppendProperties, LenProperties
  <1>6. /\ rows' \in [Records -> [status : {"none", "active"}, soul : {Null, Soul}]]
        /\ rows'[r].status = "active"
        /\ \A x \in Records : x # r => rows'[x] = rows[x]
    BY <1>1, <1>4 DEF Typing
  <1>7. Len(loc[p].left) # 1 => Tail(loc[p].left) # <<>>
    <2>1. loc[p].left \in Seq(Records) /\ loc[p].left # <<>>
      BY LocFields
    <2>2. Len(Tail(loc[p].left)) = Len(loc[p].left) - 1 /\ Len(loc[p].left) \in Nat /\ Len(<<>>) = 0
      BY <2>1, HeadTailProperties, LenProperties, EmptySeq
    <2>3. Tail(loc[p].left) = <<>> => Len(loc[p].left) - 1 = 0
      BY <2>2
    <2> DEFINE n == Len(loc[p].left)
    <2>4. n \in Nat
      BY <2>2
    <2> HIDE DEF n
    <2>5. n - 1 = 0 => n = 1
      BY <2>4
    <2> QED
      BY <2>3, <2>5 DEF n
  <1>8. /\ pc' \in [Procs -> PCs]
        /\ loc' \in [Procs -> LocType] /\ calls' \in 0..MaxCalls
        /\ \A q \in Procs : q # p => pc'[q] = pc[q] /\ loc'[q] = loc[q]
        /\ \/ Len(loc[p].left) = 1 /\ pc'[p] = "idle" /\ loc'[p] = Blank
           \/ Len(loc[p].left) # 1 /\ pc'[p] = "mount" /\ loc'[p] = l
    <2>1. CASE Len(loc[p].left) = 1 /\ End(p)
      BY <2>1, EndTyped
    <2>2. CASE Len(loc[p].left) # 1 /\ Goto(p, "mount", l)
      BY <1>3, <2>2, GotoTyped
    <2> QED
      BY <1>4, <2>1, <2>2
  <1> QED
    BY <1>1, <1>3, <1>4, <1>5, <1>6, <1>7, <1>8 DEF r, e

\* What InitTarget does when the target is not there.
InitNext(p) ==
  /\ db = "absent" /\ db' = "ready" /\ UNCHANGED <<rows, files>>
  /\ log' = <<[op |-> "vault.init", soul |-> Null, rec |-> Null]>>
  /\ Goto(p, "mount", loc[p])

LEMMA InitCases ==
  ASSUME NEW p, InitTarget(p)
  PROVE  pc[p] = "init" /\ ((End(p) /\ UNCHANGED target) \/ InitNext(p))
  BY DEF InitTarget, InitNext

LEMMA InitFacts ==
  ASSUME Typing, NEW p \in Procs, InitNext(p)
  PROVE  /\ pc'[p] = "mount" /\ loc'[p] = loc[p]
         /\ pc' \in [Procs -> PCs]
         /\ loc' \in [Procs -> LocType] /\ calls' \in 0..MaxCalls
         /\ \A q \in Procs : q # p => pc'[q] = pc[q] /\ loc'[q] = loc[q]
         /\ log' \in Seq(LogType) /\ Len(log') = 1 /\ log' # <<>>
  <1>1. Goto(p, "mount", loc[p])
    BY DEF InitNext
  <1>2. [op |-> "vault.init", soul |-> Null, rec |-> Null] \in LogType
    BY DEF LogType
  <1>3. log' \in Seq(LogType) /\ Len(log') = 1 /\ log' # <<>>
    BY <1>2 DEF InitNext
  <1> QED
    BY <1>1, <1>3, LocFields, GotoTyped

LEMMA MountBeginFacts ==
  ASSUME Typing, Manifests, NEW p \in Procs, NEW key \in Keys, BeginMount(p, key)
  PROVE  /\ pc'[p] = "init" /\ pc[p] = "idle"
         /\ loc'[p].left # <<>>
         /\ \E w \in written : loc'[p].left = Graph(w.entries)
         /\ pc' \in [Procs -> PCs]
         /\ loc' \in [Procs -> LocType] /\ calls' \in 0..MaxCalls
         /\ \A q \in Procs : q # p => pc'[q] = pc[q] /\ loc'[q] = loc[q]
  <1>1. PICK m \in manifest :
          Begin(p, "init", [Blank EXCEPT !.left = Graph(m.entries), !.key = key])
    BY DEF BeginMount
  <1>2. PICK w \in written : Derived(m, w) /\ Original(w)
    BY DEF Manifests
  <1>3. /\ m.entries \in Seq(EntryType) /\ w.entries \in Seq(EntryType)
        /\ Len(m.entries) = Len(w.entries) /\ w.entries # <<>>
        /\ \A i \in 1..Len(m.entries) : m.entries[i].rec = w.entries[i].rec
    BY <1>2 DEF Derived, Original
  <1>4. Graph(m.entries) = Graph(w.entries)
    BY <1>3 DEF Graph
  <1>5. Graph(m.entries) \in Seq(Records) /\ Graph(m.entries) # <<>>
    BY <1>3, GraphFacts, EmptySeq
  <1> DEFINE l == [Blank EXCEPT !.left = Graph(m.entries), !.key = key]
  <1>6. l \in LocType /\ l.left = Graph(m.entries)
    BY <1>5, BlankType DEF LocType
  <1> HIDE DEF l
  <1>7. Begin(p, "init", l)
    BY <1>1 DEF l
  <1>8. /\ pc' \in [Procs -> PCs]
        /\ loc' \in [Procs -> LocType] /\ calls' \in 0..MaxCalls
        /\ pc'[p] = "init" /\ loc'[p] = l /\ pc[p] = "idle"
        /\ \A q \in Procs : q # p => pc'[q] = pc[q] /\ loc'[q] = loc[q]
    BY <1>6, <1>7, BeginTyped
  <1> QED
    BY <1>4, <1>5, <1>6, <1>8

LEMMA ListFacts ==
  ASSUME Typing, SourceKept, NEW p \in Procs, NEW sig \in Schemes, ListForExport(p, sig)
  PROVE  /\ pc'[p] = "copy" /\ pc[p] = "idle" /\ memory # <<>>
         /\ loc'[p].left = memory /\ loc'[p].entries = <<>> /\ loc'[p].sig = sig
         /\ pc' \in [Procs -> PCs]
         /\ loc' \in [Procs -> LocType] /\ calls' \in 0..MaxCalls
         /\ \A q \in Procs : q # p => pc'[q] = pc[q] /\ loc'[q] = loc[q]
  <1> DEFINE l == [Blank EXCEPT !.left = memory, !.sig = sig]
  <1>1. memory # <<>> /\ Begin(p, "copy", l)
    BY DEF ListForExport
  <1>2. l \in LocType
    BY BlankType DEF LocType, Typing
  <1>3. l.left = memory /\ l.entries = <<>> /\ l.sig = sig
    BY DEF Blank
  <1> HIDE DEF l
  <1> QED
    BY <1>1, <1>2, <1>3, BeginTyped

LEMMA PutFacts ==
  ASSUME Typing, SourceKept, NEW r \in Records, Put(r)
  PROVE  /\ memory' \in Seq(Records) /\ source' \in [Records -> Contents \cup {Null}]
         /\ SourceKept'
         /\ source[r] = Null /\ source'[r] = Enc(r, OldKey)
         /\ \A x \in Records : x # r => source'[x] = source[x]
  <1>1. Enc(r, OldKey) \in Contents /\ Enc(r, OldKey) \notin {Null, Absent}
    BY EncFacts
  <1>2. /\ source' \in [Records -> Contents \cup {Null}]
        /\ source[r] = Null /\ source'[r] = Enc(r, OldKey)
        /\ \A x \in Records : x # r => source'[x] = source[x]
    BY <1>1 DEF Typing, Put
  <1>3. memory \in Seq(Records) /\ memory' = Append(memory, r)
    BY DEF Typing, Put
  <1>4. /\ memory' \in Seq(Records) /\ Len(memory') = Len(memory) + 1 /\ Len(memory) \in Nat
        /\ \A i \in 1..Len(memory) : memory'[i] = memory[i]
        /\ memory'[Len(memory) + 1] = r
    BY <1>3, AppendProperties, LenProperties
  <1>5. r \notin Live
    BY <1>2 DEF SourceKept
  <1>6. Distinct(memory')
    <2> SUFFICES ASSUME NEW i \in 1..Len(memory'), NEW j \in 1..Len(memory'), memory'[i] = memory'[j]
                 PROVE  i = j
      BY DEF Distinct
    <2>1. ASSUME NEW k \in 1..Len(memory) PROVE memory'[k] # r
      BY <1>4, <1>5, <2>1 DEF Live
    <2>2. CASE i = Len(memory) + 1
      BY <1>4, <2>1, <2>2
    <2>3. CASE j = Len(memory) + 1
      BY <1>4, <2>1, <2>3
    <2>4. CASE i # Len(memory) + 1 /\ j # Len(memory) + 1
      <3>1. i \in 1..Len(memory) /\ j \in 1..Len(memory)
        BY <1>4, <2>4
      <3>2. memory[i] = memory[j]
        BY <1>4, <3>1
      <3> QED
        BY <3>1, <3>2 DEF SourceKept, Distinct
    <2> QED
      BY <2>2, <2>3, <2>4
  <1>7. Live' = Live \cup {r}
    <2>1. \A i \in 1..Len(memory') : i \in 1..Len(memory) \/ i = Len(memory) + 1
      BY <1>4
    <2>2. Len(memory) + 1 \in 1..Len(memory') /\ \A i \in 1..Len(memory) : i \in 1..Len(memory')
      BY <1>4
    <2> QED
      BY <1>4, <2>1, <2>2 DEF Live
  <1>8. ASSUME NEW x \in Records PROVE x \in Live' <=> source'[x] \notin {Null, Absent}
    BY <1>1, <1>2, <1>7 DEF SourceKept
  <1> QED
    BY <1>2, <1>4, <1>6, <1>8 DEF SourceKept

LEMMA TombstoneFacts ==
  ASSUME Typing, SourceKept, NEW r \in Records, Tombstone(r)
  PROVE  /\ memory' \in Seq(Records) /\ source' \in [Records -> Contents \cup {Null}]
         /\ SourceKept'
         /\ source'[r] = Absent
         /\ \A x \in Records : x # r => source'[x] = source[x]
  <1>1. PICK i \in 1..Len(memory) : memory[i] = r /\ memory' = RemoveAt(memory, i)
    BY DEF Tombstone
  <1>2. memory \in Seq(Records) /\ Distinct(memory)
    BY DEF Typing, SourceKept
  <1>3. memory' \in Seq(Records) /\ Distinct(memory') /\ Elements(memory') = Elements(memory) \ {r}
    BY <1>1, <1>2, RemoveFacts
  <1>4. Live' = Live \ {r}
    BY <1>3 DEF Live, Elements
  <1>5. /\ source' \in [Records -> Contents \cup {Null}]
        /\ source'[r] = Absent
        /\ \A x \in Records : x # r => source'[x] = source[x]
    BY Markers DEF Typing, Tombstone
  <1>6. ASSUME NEW x \in Records PROVE x \in Live' <=> source'[x] \notin {Null, Absent}
    BY <1>4, <1>5 DEF SourceKept
  <1> QED
    BY <1>3, <1>5, <1>6 DEF SourceKept

LEMMA DamagePayloadFacts ==
  ASSUME Typing, SourceKept, NEW r \in Records, DamagePayload(r), UNCHANGED memory
  PROVE  /\ source' \in [Records -> Contents \cup {Null}] /\ capsule' \in [Records -> Contents]
         /\ SourceKept'
         /\ faults' \in 0..MaxFaults /\ faults' # 0
         /\ \A x \in Records : source[x] # Null => source'[x] # Null
  <1>1. faults' \in 0..MaxFaults /\ faults' # 0
    BY FaultTyped DEF DamagePayload
  <1>2. /\ source' \in [Records -> Contents \cup {Null}] /\ capsule' \in [Records -> Contents]
        /\ \A x \in Records : source[x] # Null => source'[x] # Null
        /\ \A x \in Records : source'[x] \in {Null, Absent} <=> source[x] \in {Null, Absent}
    <2>1. Damaged \in Contents /\ Absent \in Contents /\ Damaged \notin {Null, Absent}
      BY Markers, CapsuleConstants
    <2> QED
      BY <2>1 DEF Typing, DamagePayload
  <1>3. ASSUME NEW x \in Records PROVE x \in Live' <=> source'[x] \notin {Null, Absent}
    BY <1>2 DEF SourceKept, Live
  <1> QED
    BY <1>1, <1>2, <1>3 DEF SourceKept

LEMMA KillFacts ==
  ASSUME Typing, NEW p \in Procs, Kill(p), pc[p] = "mount" => loc[p].left # <<>>
  PROVE  /\ pc' \in [Procs -> PCs]
         /\ loc' \in [Procs -> LocType] /\ calls' \in 0..MaxCalls
         /\ faults' \in 0..MaxFaults /\ faults' # 0
         /\ pc'[p] = "idle"
         /\ \A q \in Procs : q # p => pc'[q] = pc[q] /\ loc'[q] = loc[q]
         /\ files' \in [Records -> Contents]
         /\ UNCHANGED <<rows, log>>
         /\ db' = db \/ (db = "absent" /\ db' = "partial")
         /\ \A r \in Records : files[r] # Absent => files'[r] = files[r]
  <1>1. End(p) /\ Fault
    BY DEF Kill
  <1>2. faults' \in 0..MaxFaults /\ faults' # 0
    BY <1>1, FaultTyped
  <1>3. /\ pc' \in [Procs -> PCs]
        /\ loc' \in [Procs -> LocType] /\ calls' \in 0..MaxCalls
        /\ pc'[p] = "idle"
        /\ \A q \in Procs : q # p => pc'[q] = pc[q] /\ loc'[q] = loc[q]
    BY <1>1, EndTyped
  <1> DEFINE r == Head(loc[p].left)
  <1>4. pc[p] = "mount" => r \in Records
    BY LocFields
  <1>5. Damaged \in Contents /\ files \in [Records -> Contents]
    BY Markers DEF Typing
  <1>6. \/ UNCHANGED target
        \/ db = "absent" /\ db' = "partial" /\ UNCHANGED <<rows, files, log>>
        \/ /\ pc[p] = "mount" /\ files[r] = Absent /\ files' = [files EXCEPT ![r] = Damaged]
           /\ UNCHANGED <<db, rows, log>>
    BY DEF Kill
  <1> HIDE DEF r
  <1>7. /\ files' \in [Records -> Contents]
        /\ \A x \in Records : files[x] # Absent => files'[x] = files[x]
    BY <1>4, <1>5, <1>6
  <1>8. /\ UNCHANGED <<rows, log>>
        /\ db' = db \/ (db = "absent" /\ db' = "partial")
    BY <1>6
  <1> QED
    BY <1>2, <1>3, <1>7, <1>8

LEMMA InvInit == Init => CapsuleInv
  <1> SUFFICES ASSUME Init PROVE CapsuleInv
    OBVIOUS
  <1>1. Typing
    <2>1. <<>> \in Seq(Records) /\ <<>> \in Seq(LogType)
      BY EmptySeq
    <2> QED
      BY <2>1, Markers, BlankType, CapsuleConstants DEF Init, Typing
  <1>2. SourceKept
    <2>1. Len(memory) = 0
      BY EmptySeq DEF Init
    <2> QED
      BY <2>1 DEF Init, SourceKept, Distinct, Live
  <1>3. Exports /\ Alone /\ Manifests
    BY DEF Init, Exports, Alone, Manifests
  <1>4. Undamaged
    <2>1. CopiesWhole
      BY DEF Init, CopiesWhole
    <2> QED
      BY <2>1 DEF Init, Undamaged, SourceWhole, EntriesWhole, ManifestsWhole
  <1>5. MountInv
    BY DEF Init, MountInv, Mounters
  <1> QED
    BY <1>1, <1>2, <1>3, <1>4, <1>5 DEF CapsuleInv, ExportInv

\* What is left of an export or a mount under way.
LEMMA LeftFacts ==
  ASSUME ExportInv, MountInv, NEW p \in Procs
  PROVE  /\ pc[p] \in ExportSteps => Exporting(p)
         /\ pc[p] \in {"copy", "fill", "hash"} => loc[p].left # <<>>
         /\ pc[p] \in {"mount", "insert"} => loc[p].left # <<>>
  <1>1. pc[p] \in ExportSteps => Exporting(p)
    BY DEF ExportInv, Exports
  <1>2. pc[p] \in {"copy", "fill", "hash"} => loc[p].left # <<>>
    BY <1>1 DEF Exporting
  <1> QED
    BY <1>1, <1>2 DEF MountInv, Mounters

\* A step of an export moves that command alone, and on to a step of an export
\* or to its end.
LEMMA ExportMoves ==
  ASSUME ExportInv, MountInv, NEW p \in Procs, ExportNext(p)
  PROVE  /\ pc' \in [Procs -> PCs]
         /\ loc' \in [Procs -> LocType] /\ calls' \in 0..MaxCalls
         /\ capsule' \in [Records -> Contents]
         /\ pc'[p] \in {"idle"} \cup ExportSteps
         /\ \A q \in Procs : q # p => pc'[q] = pc[q] /\ loc'[q] = loc[q]
  <1>0. Typing /\ SourceKept /\ capsule \in [Records -> Contents]
    BY DEF ExportInv, Typing
  <1>1. CASE (\E sig \in Schemes : ListForExport(p, sig)) /\ UNCHANGED capsule
    BY <1>0, <1>1, ListFacts
  <1>2. CASE End(p) /\ UNCHANGED capsule
    BY <1>0, <1>2, EndTyped
  <1>3. CASE pc[p] = "copy" /\ OpenNext(p)
    BY <1>0, <1>3, LeftFacts, OpenFacts
  <1>4. CASE CopyFill(p)
    <2>1. pc[p] = "fill"
      BY <1>4 DEF CopyFill
    <2> QED
      BY <1>0, <1>4, <2>1, LeftFacts, FillFacts
  <1>5. CASE pc[p] = "hash" /\ HashNext(p) /\ UNCHANGED capsule
    <2>1. Exporting(p)
      BY <1>5, LeftFacts
    <2> QED
      BY <1>0, <1>5, <2>1, HashFacts
  <1>6. CASE OpenManifest(p) /\ UNCHANGED capsule
    BY <1>0, <1>6, OpenManifestFacts
  <1>7. CASE WriteManifest(p) /\ UNCHANGED capsule
    BY <1>0, <1>7, EndTyped DEF WriteManifest
  <1> QED
    BY <1>1, <1>2, <1>3, <1>4, <1>5, <1>6, <1>7, ExportCases

\* Every step keeps the types, and the payload files to the live records.
LEMMA TypingStep ==
  ASSUME ExportInv, MountInv, [Next]_vars
  PROVE  /\ Typing' /\ SourceKept'
         /\ \A r \in Records : source[r] # Null => source'[r] # Null
  <1>0. Typing /\ SourceKept /\ Exports /\ Manifests
    BY DEF ExportInv
  <1>1. CASE \E r \in Records : Put(r) /\ UNCHANGED <<capsule, target, pc, loc, calls, faults>>
    <2>1. PICK r \in Records : Put(r) /\ UNCHANGED <<capsule, target, pc, loc, calls, faults>>
      BY <1>1
    <2>2. /\ memory' \in Seq(Records) /\ source' \in [Records -> Contents \cup {Null}] /\ SourceKept'
          /\ source[r] = Null /\ \A x \in Records : x # r => source'[x] = source[x]
      BY <1>0, <2>1, PutFacts
    <2>3. Typing'
      BY <1>0, <2>1, <2>2 DEF Typing
    <2> QED
      BY <2>2, <2>3
  <1>2. CASE \E r \in Records : Tombstone(r) /\ UNCHANGED <<capsule, target, pc, loc, calls, faults>>
    <2>1. PICK r \in Records : Tombstone(r) /\ UNCHANGED <<capsule, target, pc, loc, calls, faults>>
      BY <1>2
    <2>2. /\ memory' \in Seq(Records) /\ source' \in [Records -> Contents \cup {Null}] /\ SourceKept'
          /\ source'[r] = Absent /\ \A x \in Records : x # r => source'[x] = source[x]
      BY <1>0, <2>1, TombstoneFacts
    <2>3. Typing'
      BY <1>0, <2>1, <2>2 DEF Typing
    <2> QED
      BY <2>2, <2>3, CapsuleConstants
  <1>3. ASSUME NEW p \in Procs, ExportNext(p)
        PROVE  Typing' /\ UNCHANGED <<memory, source>>
    <2>1. UNCHANGED <<memory, source, target, faults>>
      BY <1>3, ExportCases
    <2>2. /\ pc' \in [Procs -> PCs] /\ loc' \in [Procs -> LocType] /\ calls' \in 0..MaxCalls
          /\ capsule' \in [Records -> Contents]
      BY <1>3, ExportMoves
    <2> QED
      BY <1>0, <2>1, <2>2 DEF Typing
  <1>4. ASSUME NEW p \in Procs, MountNext(p)
        PROVE  Typing' /\ UNCHANGED <<memory, source>>
    <2>1. UNCHANGED <<memory, source, capsule, faults>>
      BY <1>4 DEF MountNext
    <2>2. CASE \E key \in Keys : BeginMount(p, key) /\ UNCHANGED target
      BY <1>0, <2>1, <2>2, MountBeginFacts DEF Typing
    <2>3. CASE InitTarget(p)
      <3>1. CASE End(p) /\ UNCHANGED target
        BY <1>0, <2>1, <3>1, EndTyped DEF Typing
      <3>2. CASE InitNext(p)
        <4>1. db' = "ready" /\ UNCHANGED <<rows, files>>
          BY <3>2 DEF InitNext
        <4> QED
          BY <1>0, <2>1, <3>2, <4>1, InitFacts DEF Typing
      <3> QED
        BY <2>3, <3>1, <3>2, InitCases
    <2>4. CASE MountFile(p)
      <3>1. CASE End(p) /\ UNCHANGED files
        BY <1>0, <2>1, <2>4, <3>1, EndTyped, MountFileCases DEF Typing
      <3>2. CASE FileNext(p)
        <4>1. loc[p].left # <<>> /\ UNCHANGED <<db, rows, log>>
          BY <2>4, LeftFacts, MountFileCases
        <4> QED
          BY <1>0, <2>1, <3>2, <4>1, FileFacts DEF Typing
      <3> QED
        BY <2>4, <3>1, <3>2, MountFileCases
    <2>5. CASE MountInsert(p)
      <3>1. loc[p].left # <<>>
        BY <2>5, LeftFacts DEF MountInsert
      <3> QED
        BY <1>0, <2>1, <2>5, <3>1, MountInsertFacts DEF Typing
    <2> QED
      BY <1>4, <2>1, <2>2, <2>3, <2>4, <2>5 DEF MountNext
  <1>5. CASE \E r \in Records : DamagePayload(r) /\ UNCHANGED <<memory, target, pc, loc, calls>>
    <2>1. /\ source' \in [Records -> Contents \cup {Null}] /\ capsule' \in [Records -> Contents]
          /\ SourceKept' /\ faults' \in 0..MaxFaults
          /\ \A x \in Records : source[x] # Null => source'[x] # Null
      BY <1>0, <1>5, DamagePayloadFacts
    <2>2. Typing'
      BY <1>0, <1>5, <2>1 DEF Typing
    <2> QED
      BY <2>1, <2>2
  <1>6. CASE DamageManifest /\ UNCHANGED <<memory, source, capsule, target, pc, loc, calls>>
    <2>1. faults' \in 0..MaxFaults
      BY <1>0, <1>6, FaultTyped DEF DamageManifest
    <2>2. Typing'
      BY <1>0, <1>6, <2>1 DEF Typing
    <2>3. SourceKept'
      BY <1>0, <1>6 DEF SourceKept, Live
    <2> QED
      BY <1>6, <2>2, <2>3
  <1>7. CASE \E p \in Procs : Kill(p) /\ UNCHANGED <<memory, source, capsule>>
    <2>1. PICK p \in Procs : Kill(p) /\ UNCHANGED <<memory, source, capsule>>
      BY <1>7
    <2>2. Typing'
      BY <1>0, <2>1, LeftFacts, KillFacts DEF Typing
    <2>3. SourceKept'
      BY <1>0, <2>1 DEF SourceKept, Live
    <2> QED
      BY <2>1, <2>2, <2>3
  <1>8. CASE UNCHANGED <<memory, source, capsule, target, pc, loc, faults>> /\ calls' \in 0..MaxCalls
    BY <1>0, <1>8 DEF Typing, SourceKept, Live
  <1>9. ASSUME UNCHANGED <<memory, source>> PROVE SourceKept' /\ \A r \in Records : source[r] # Null => source'[r] # Null
    BY <1>0, <1>9 DEF SourceKept, Live
  <1> QED
    <2>1. ASSUME NEW p \in Procs, ExportNext(p) \/ MountNext(p)
          PROVE  Typing' /\ SourceKept' /\ \A r \in Records : source[r] # Null => source'[r] # Null
      BY <1>3, <1>4, <1>9, <2>1
    <2>2. CASE SourceNext
      <3>1. UNCHANGED <<capsule, target, pc, loc, faults>>
        BY <2>2 DEF SourceNext
      <3>2. CASE (\E r \in Records : Put(r) \/ Tombstone(r)) /\ UNCHANGED calls
        BY <1>1, <1>2, <3>1, <3>2
      <3>3. CASE (\E flag \in BOOLEAN : SetFrozen(flag)) /\ UNCHANGED <<memory, source>>
        <4>1. calls \in 0..MaxCalls /\ calls < MaxCalls /\ calls' = calls + 1 /\ MaxCalls \in Nat
          BY <1>0, <3>3, CapsuleConstants DEF Typing, SetFrozen
        <4>2. calls' \in 0..MaxCalls
          BY <4>1
        <4> QED
          BY <1>8, <1>9, <3>1, <3>3, <4>2
      <3> QED
        BY <2>2, <3>2, <3>3 DEF SourceNext
    <2>3. CASE FaultNext
      BY <1>5, <1>6, <1>7, <2>3 DEF FaultNext
    <2>4. CASE UNCHANGED vars
      <3>1. calls \in 0..MaxCalls
        BY <1>0 DEF Typing
      <3> QED
        BY <1>8, <1>9, <2>4, <3>1 DEF vars
    <2> QED
      BY <2>1, <2>2, <2>3, <2>4 DEF Next

-----------------------------------------------------------------------------
(* Exports.                                                                *)

LEMMA ExportingKept ==
  ASSUME Typing, NEW q \in Procs, Exporting(q), pc'[q] = pc[q], loc'[q] = loc[q],
         \A r \in Records : source[r] # Null => source'[r] # Null
  PROVE  Exporting(q)'
  <1>1. \A i \in 1..Len(loc[q].left) : loc[q].left[i] \in Records
    BY LocFields, ElementOfSeq
  <1>2. \A i \in 1..Len(loc[q].left) : source'[loc[q].left[i]] # Null
    BY <1>1 DEF Exporting
  <1> QED
    BY <1>2 DEF Exporting, Honest

\* A new export has nothing yet, and left what is live.
LEMMA ListExporting ==
  ASSUME Typing, SourceKept, NEW p \in Procs, NEW sig \in Schemes, ListForExport(p, sig),
         UNCHANGED source
  PROVE  Exporting(p)'
  <1>1. /\ pc'[p] = "copy" /\ memory # <<>>
        /\ loc'[p].left = memory /\ loc'[p].entries = <<>> /\ loc'[p].sig = sig
    BY ListFacts
  <1>2. Len(<<>>) = 0 /\ <<>> \in Seq(EntryType)
    BY EmptySeq
  <1>3. Graph(<<>>) \o memory = memory
    <2>1. Graph(<<>>) \in Seq(Records) /\ Len(Graph(<<>>)) = 0
      BY <1>2, GraphFacts
    <2>2. Graph(<<>>) = <<>>
      BY <2>1, EmptySeq
    <2> QED
      BY <2>2, ConcatEmptySeq DEF Typing
  <1>4. \A i \in 1..Len(memory) : source[memory[i]] # Null
    <2>1. \A i \in 1..Len(memory) : memory[i] \in Records /\ memory[i] \in Live
      BY ElementOfSeq DEF Typing, Live
    <2> QED
      BY <2>1 DEF SourceKept
  <1>5. Distinct(Graph(loc'[p].entries) \o loc'[p].left)
    BY <1>1, <1>3 DEF SourceKept
  <1>6. \A i \in 1..Len(loc'[p].entries) : Honest(loc'[p].entries[i])
    BY <1>1, <1>2
  <1>7. \A i \in 1..Len(loc'[p].left) : source'[loc'[p].left[i]] # Null
    BY <1>1, <1>4
  <1> QED
    BY <1>1, <1>5, <1>6, <1>7 DEF Exporting, Honest

\* Opening the copy of a payload, writing it, and opening the manifest.
LEMMA WritingExporting ==
  ASSUME ExportInv, MountInv, NEW p \in Procs, ExportNext(p),
         \/ pc[p] = "copy" /\ OpenNext(p)
         \/ CopyFill(p)
         \/ OpenManifest(p)
  PROVE  /\ Exporting(p)'
         /\ loc'[p].left = loc[p].left /\ loc'[p].entries = loc[p].entries
  <1>0. Typing /\ UNCHANGED source
    BY ExportCases DEF ExportInv
  <1>1. pc[p] \in ExportSteps /\ Exporting(p)
    BY LeftFacts DEF CopyFill, OpenManifest
  <1>2. /\ loc'[p].left = loc[p].left /\ loc'[p].entries = loc[p].entries /\ loc'[p].sig = loc[p].sig
        /\ pc'[p] \in {"fill", "hash"} => pc[p] \in {"copy", "fill"}
        /\ pc'[p] = "fill" => loc'[p].bytes \in Contents
        /\ pc'[p] = "write" => pc[p] = "manifest"
        /\ pc'[p] \in {"fill", "hash", "write"}
    <2>1. loc[p] \in LocType
      BY <1>0, LocFields
    <2>2. CASE pc[p] = "copy" /\ OpenNext(p)
      <3>1. /\ pc'[p] = "fill" /\ loc'[p] = [loc[p] EXCEPT !.bytes = source[Head(loc[p].left)]]
            /\ source[Head(loc[p].left)] \in Contents
        BY <1>0, <1>1, <2>2, OpenFacts
      <3> QED
        BY <2>1, <2>2, <3>1 DEF LocType
    <2>3. CASE CopyFill(p)
      <3>1. pc[p] = "fill" /\ pc'[p] = "hash" /\ loc'[p] = [loc[p] EXCEPT !.bytes = Null]
        BY <1>0, <1>1, <2>3, FillFacts
      <3> QED
        BY <2>1, <3>1 DEF LocType
    <2>4. CASE OpenManifest(p)
      BY <1>0, <2>4, OpenManifestFacts
    <2> QED
      BY <2>2, <2>3, <2>4
  <1> QED
    BY <1>0, <1>1, <1>2 DEF Exporting, Honest

\* Hashing the copy of one payload more.
LEMMA HashExporting ==
  ASSUME Typing, NEW p \in Procs, pc[p] = "hash", Exporting(p), HashNext(p), UNCHANGED source
  PROVE  Exporting(p)'
  <1> DEFINE left == loc[p].left
             e == loc[p].entries
             r == Head(left)
  <1>1. /\ r \in Records /\ capsule[r] # Absent
        /\ loc'[p].left = Tail(left) /\ loc'[p].entries = Append(e, Entry(r)) /\ loc'[p].sig = loc[p].sig
        /\ pc'[p] = IF Tail(left) = <<>> THEN "manifest" ELSE "copy"
    BY HashFacts
  <1>2. /\ loc[p].sig \in Schemes /\ left # <<>>
        /\ \A i \in 1..Len(e) : Honest(e[i])
        /\ Distinct(Graph(e) \o left)
        /\ \A i \in 1..Len(left) : source[left[i]] # Null
    BY DEF Exporting
  <1>3. left \in Seq(Records) /\ e \in Seq(EntryType)
    BY LocFields
  <1>4. Entry(r) \in EntryType /\ Honest(Entry(r)) /\ Entry(r).rec = r
    BY <1>1, EntryFacts
  <1> HIDE DEF e
  <1>5. Distinct(Graph(Append(e, Entry(r))) \o Tail(left))
    BY <1>2, <1>3, <1>4, GraphAppend
  <1>6. /\ Len(Append(e, Entry(r))) = Len(e) + 1 /\ Len(e) \in Nat
        /\ \A i \in 1..Len(e) : Append(e, Entry(r))[i] = e[i]
        /\ Append(e, Entry(r))[Len(e) + 1] = Entry(r)
    BY <1>3, <1>4, AppendProperties, LenProperties
  <1>7. \A i \in 1..Len(Append(e, Entry(r))) : Honest(Append(e, Entry(r))[i])
    <2> TAKE i \in 1..Len(Append(e, Entry(r)))
    <2>1. i \in 1..Len(e) \/ i = Len(e) + 1
      BY <1>6
    <2>2. CASE i \in 1..Len(e)
      BY <1>2, <1>6, <2>2
    <2>3. CASE i = Len(e) + 1
      BY <1>4, <1>6, <2>3
    <2> QED
      BY <2>1, <2>2, <2>3
  <1>8. Append(e, Entry(r)) # <<>>
    BY <1>3, <1>4, AppendProperties
  <1>9. \A i \in 1..Len(Tail(left)) : source[Tail(left)[i]] # Null
    <2>1. /\ Len(Tail(left)) = Len(left) - 1 /\ Len(left) \in Nat
          /\ \A i \in 1..Len(Tail(left)) : Tail(left)[i] = left[i + 1]
      BY <1>2, <1>3, HeadTailProperties, LenProperties
    <2> TAKE i \in 1..Len(Tail(left))
    <2>2. i + 1 \in 1..Len(left)
      BY <2>1
    <2> QED
      BY <1>2, <2>1, <2>2
  <1> HIDE DEF r, left
  <1> QED
    BY <1>1, <1>2, <1>5, <1>7, <1>8, <1>9 DEF Exporting, Honest

\* Every step keeps what holds of the exports under way.
LEMMA ExportsStep ==
  ASSUME ExportInv, MountInv, [Next]_vars
  PROVE  Exports'
  <1>0. Typing /\ SourceKept /\ Exports /\ Manifests
    BY DEF ExportInv
  <1>1. \A r \in Records : source[r] # Null => source'[r] # Null
    BY TypingStep
  <1>2. \A q \in Procs : pc[q] \in ExportSteps /\ pc'[q] = pc[q] /\ loc'[q] = loc[q] => Exporting(q)'
    BY <1>0, <1>1, ExportingKept DEF Exports
  \* It is enough to look at one command that moves.
  <1>3. ASSUME NEW p \in Procs, \A q \in Procs : q # p => pc'[q] = pc[q] /\ loc'[q] = loc[q],
               pc'[p] \in ExportSteps => Exporting(p)'
        PROVE  Exports'
    BY <1>2, <1>3 DEF Exports
  <1>4. ASSUME NEW p \in Procs, End(p) PROVE Exports'
    BY <1>0, <1>3, <1>4, EndTyped
  <1>5. ASSUME NEW p \in Procs, ExportNext(p) PROVE Exports'
    <2>1. UNCHANGED source /\ \A q \in Procs : q # p => pc'[q] = pc[q] /\ loc'[q] = loc[q]
      BY <1>5, ExportCases, ExportMoves
    <2>2. CASE \E sig \in Schemes : ListForExport(p, sig)
      <3>1. Exporting(p)'
        BY <1>0, <2>1, <2>2, ListExporting
      <3> QED
        BY <1>3, <2>1, <3>1
    <2>3. CASE pc[p] = "hash" /\ HashNext(p)
      <3>1. Exporting(p)
        BY <2>3, LeftFacts
      <3>2. Exporting(p)'
        BY <1>0, <2>1, <2>3, <3>1, HashExporting
      <3> QED
        BY <1>3, <2>1, <3>2
    <2>4. CASE \/ pc[p] = "copy" /\ OpenNext(p)
               \/ CopyFill(p)
               \/ OpenManifest(p)
      <3>1. Exporting(p)'
        BY <1>5, <2>4, WritingExporting
      <3> QED
        BY <1>3, <2>1, <3>1
    <2>5. CASE End(p) \/ WriteManifest(p)
      BY <1>4, <2>5 DEF WriteManifest
    <2> QED
      BY <1>5, <2>2, <2>3, <2>4, <2>5, ExportCases
  <1>6. ASSUME NEW p \in Procs, MountNext(p) PROVE Exports'
    <2>1. CASE \E key \in Keys : BeginMount(p, key)
      <3>1. pc'[p] = "init" /\ \A q \in Procs : q # p => pc'[q] = pc[q] /\ loc'[q] = loc[q]
        BY <1>0, <2>1, MountBeginFacts
      <3> QED
        BY <1>3, <3>1
    <2>2. CASE InitTarget(p)
      <3>1. CASE InitNext(p)
        <4>1. pc'[p] = "mount" /\ \A q \in Procs : q # p => pc'[q] = pc[q] /\ loc'[q] = loc[q]
          BY <1>0, <3>1, InitFacts
        <4> QED
          BY <1>3, <4>1
      <3> QED
        BY <1>4, <2>2, <3>1, InitCases
    <2>3. CASE MountFile(p)
      <3>1. CASE FileNext(p)
        <4>1. loc[p].left # <<>>
          BY <2>3, LeftFacts, MountFileCases
        <4>2. pc'[p] = "insert" /\ \A q \in Procs : q # p => pc'[q] = pc[q] /\ loc'[q] = loc[q]
          BY <1>0, <3>1, <4>1, FileFacts
        <4> QED
          BY <1>3, <4>2
      <3> QED
        BY <1>4, <2>3, <3>1, MountFileCases
    <2>4. CASE MountInsert(p)
      <3>1. loc[p].left # <<>>
        BY <2>4, LeftFacts DEF MountInsert
      <3>2. pc'[p] \in {"idle", "mount"} /\ \A q \in Procs : q # p => pc'[q] = pc[q] /\ loc'[q] = loc[q]
        BY <1>0, <2>4, <3>1, MountInsertFacts
      <3> QED
        BY <1>3, <3>2
    <2> QED
      BY <1>6, <2>1, <2>2, <2>3, <2>4 DEF MountNext
  <1>7. CASE \E p \in Procs : Kill(p)
    BY <1>4, <1>7 DEF Kill
  <1>8. CASE UNCHANGED <<pc, loc>>
    BY <1>2, <1>8 DEF Exports
  <1> QED
    BY <1>5, <1>6, <1>7, <1>8 DEF Next, SourceNext, FaultNext, vars

-----------------------------------------------------------------------------
(* Manifests.                                                              *)

\* An export's manifest is as exports write them.
LEMMA NewOriginal ==
  ASSUME Typing, NEW p \in Procs, Exporting(p), pc[p] = "write"
  PROVE  Original(NewManifest(loc[p].sig, loc[p].entries))
  <1> DEFINE e == loc[p].entries
  <1>1. /\ loc[p].sig \in Schemes /\ loc[p].left = <<>> /\ e # <<>>
        /\ \A i \in 1..Len(e) : Honest(e[i])
        /\ Distinct(Graph(e) \o loc[p].left)
    BY DEF Exporting
  <1>2. e \in Seq(EntryType)
    BY LocFields
  <1>3. Graph(e) \o <<>> = Graph(e)
    BY <1>2, GraphFacts, ConcatEmptySeq
  <1> HIDE DEF e
  <1> DEFINE m == NewManifest(loc[p].sig, e)
  <1>4. m.sig = loc[p].sig /\ m.entries = e /\ m.graph = Graph(e)
    BY DEF NewManifest
  <1> HIDE DEF m
  <1>5. m = NewManifest(m.sig, m.entries)
    BY <1>4 DEF m
  <1> QED
    BY <1>1, <1>2, <1>3, <1>4, <1>5 DEF Original, m, e

LEMMA OriginalDerived ==
  ASSUME NEW w, Original(w)
  PROVE  Derived(w, w)
  <1>1. w = [meta |-> w.meta, sig |-> w.sig, entries |-> w.entries, graph |-> w.graph, root |-> w.root]
    BY DEF Original, NewManifest
  <1> QED
    BY <1>1 DEF Derived, Original

\* Damaging a field keeps a manifest derived from the same one.
LEMMA GarbledDerived ==
  ASSUME NEW m, NEW w, Derived(m, w), NEW d \in Garblings(m)
  PROVE  Derived(d, w)
  <1> DEFINE e == m.entries
  <1>1. e \in Seq(EntryType) /\ Len(e) = Len(w.entries) /\ Len(e) \in Nat
    BY LenProperties DEF Derived
  <1>2. \A i \in 1..Len(e) : /\ e[i] \in EntryType /\ e[i].rec = w.entries[i].rec
                             /\ e[i].payload \in {w.entries[i].payload, Garbled}
                             /\ e[i].chunk \in {w.entries[i].chunk, Garbled}
    BY <1>1, ElementOfSeq DEF Derived
  <1>3. ASSUME NEW x, x \in { [e EXCEPT ![1].payload = Garbled], [e EXCEPT ![1].chunk = Garbled],
                              [e EXCEPT ![1].kind = Garbled] }
        PROVE  /\ x \in Seq(EntryType) /\ Len(x) = Len(w.entries)
               /\ \A i \in 1..Len(x) : /\ x[i].rec = w.entries[i].rec
                                       /\ x[i].payload \in {w.entries[i].payload, Garbled}
                                       /\ x[i].chunk \in {w.entries[i].chunk, Garbled}
    <2>1. PICK y : /\ x = [e EXCEPT ![1] = y]
                   /\ y \in { [e[1] EXCEPT !.payload = Garbled], [e[1] EXCEPT !.chunk = Garbled],
                              [e[1] EXCEPT !.kind = Garbled] }
      BY <1>3
    <2>2. 1 \in 1..Len(e) => /\ y \in EntryType /\ y.rec = e[1].rec
                             /\ y.payload \in {e[1].payload, Garbled}
                             /\ y.chunk \in {e[1].chunk, Garbled}
      <3> SUFFICES ASSUME 1 \in 1..Len(e)
                   PROVE  /\ y \in EntryType /\ y.rec = e[1].rec
                          /\ y.payload \in {e[1].payload, Garbled}
                          /\ y.chunk \in {e[1].chunk, Garbled}
        OBVIOUS
      <3>1. e[1] \in EntryType
        BY <1>2
      <3> QED
        BY <2>1, <3>1 DEF EntryType
    <2> HIDE DEF e
    <2>3. x \in Seq(EntryType) /\ Len(x) = Len(e) /\ \A i \in 1..Len(e) : x[i] = IF i = 1 THEN y ELSE e[i]
      <3>1. e \in [1..Len(e) -> EntryType]
        BY <1>1, LenProperties, ElementOfSeq
      <3>2. x \in [1..Len(e) -> EntryType] /\ \A i \in 1..Len(e) : x[i] = IF i = 1 THEN y ELSE e[i]
        BY <2>1, <2>2, <3>1
      <3>3. x \in Seq(EntryType)
        BY <1>1, <3>2, SeqDef
      <3> QED
        BY <1>1, <3>2, <3>3, LenProperties
    <2>4. ASSUME NEW i \in 1..Len(e)
          PROVE  /\ x[i].rec = w.entries[i].rec
                 /\ x[i].payload \in {w.entries[i].payload, Garbled}
                 /\ x[i].chunk \in {w.entries[i].chunk, Garbled}
      <3>1. CASE i = 1
        BY <1>2, <2>2, <2>3, <3>1
      <3>2. CASE i # 1
        BY <1>2, <2>3, <3>2
      <3> QED
        BY <3>1, <3>2
    <2> QED
      BY <1>1, <2>3, <2>4
  <1>4. m = [meta |-> m.meta, sig |-> m.sig, entries |-> e, graph |-> m.graph, root |-> m.root]
    BY DEF Derived
  <1>5. CASE d \in { [m EXCEPT !.meta = Garbled], [m EXCEPT !.sig = Garbled], [m EXCEPT !.graph = Garbled],
                     [m EXCEPT !.root = LeafHash(Garbled)] }
    BY <1>4, <1>5 DEF Derived
  <1>6. CASE \E x \in { [e EXCEPT ![1].payload = Garbled], [e EXCEPT ![1].chunk = Garbled],
                        [e EXCEPT ![1].kind = Garbled] } : d = [m EXCEPT !.entries = x]
    <2>1. PICK x : /\ x \in { [e EXCEPT ![1].payload = Garbled], [e EXCEPT ![1].chunk = Garbled],
                              [e EXCEPT ![1].kind = Garbled] }
                   /\ d = [m EXCEPT !.entries = x]
      BY <1>6
    <2>2. /\ d = [meta |-> d.meta, sig |-> d.sig, entries |-> d.entries, graph |-> d.graph, root |-> d.root]
          /\ d.meta = m.meta /\ d.sig = m.sig /\ d.graph = m.graph /\ d.root = m.root /\ d.entries = x
      BY <1>4, <2>1
    <2>3. /\ x \in Seq(EntryType) /\ Len(x) = Len(w.entries)
          /\ \A i \in 1..Len(x) : /\ x[i].rec = w.entries[i].rec
                                  /\ x[i].payload \in {w.entries[i].payload, Garbled}
                                  /\ x[i].chunk \in {w.entries[i].chunk, Garbled}
      BY <1>3, <2>1
    <2> QED
      BY <2>2, <2>3 DEF Derived
  <1> QED
    BY <1>5, <1>6 DEF Garblings

LEMMA ManifestsStep ==
  ASSUME ExportInv, MountInv, [Next]_vars
  PROVE  Manifests' /\ written \subseteq written'
  <1>0. Typing /\ SourceKept /\ Exports /\ Manifests
    BY DEF ExportInv
  <1>1. CASE UNCHANGED <<written, alone>> /\ manifest' \in {manifest, {}}
    BY <1>0, <1>1 DEF Manifests
  <1>2. CASE \E p \in Procs : WriteManifest(p)
    <2>1. PICK p \in Procs : WriteManifest(p)
      BY <1>2
    <2> DEFINE m == NewManifest(loc[p].sig, loc[p].entries)
    <2>2. /\ pc[p] = "write" /\ manifest' \subseteq {m} /\ written' = written \cup {m}
          /\ alone' \subseteq alone \cup {m}
      BY <2>1 DEF WriteManifest
    <2>3. Original(m)
      BY <1>0, <2>2, LeftFacts, NewOriginal
    <2> HIDE DEF m
    <2>4. Derived(m, m)
      BY <2>3, OriginalDerived
    <2> QED
      BY <1>0, <2>2, <2>3, <2>4 DEF Manifests
  <1>3. CASE DamageManifest /\ UNCHANGED <<written, alone>>
    <2>1. PICK m \in manifest : manifest' \in {{}} \cup { {d} : d \in Garblings(m) }
      BY <1>3 DEF DamageManifest
    <2>2. PICK w \in written : Derived(m, w)
      BY <1>0 DEF Manifests
    <2>3. \A d \in manifest' : Derived(d, w)
      BY <2>1, <2>2, GarbledDerived
    <2> QED
      BY <1>0, <1>3, <2>3 DEF Manifests
  <1>4. ASSUME NEW p \in Procs, ExportNext(p)
        PROVE  (UNCHANGED <<written, alone>> /\ manifest' \in {manifest, {}}) \/ WriteManifest(p)
    <2>1. OpenManifest(p) => manifest' = {}
      BY DEF OpenManifest
    <2> QED
      BY <1>4, <2>1, ExportCases
  <1> QED
    BY <1>1, <1>2, <1>3, <1>4 DEF Next, SourceNext, MountNext, FaultNext, vars

-----------------------------------------------------------------------------
(* ExportVerifies.                                                         *)

\* Only listing begins an export or changes lone; an export's entries change with
\* a copy hashed.
LEMMA EntriesStep ==
  ASSUME ExportInv, MountInv, [Next]_vars
  PROVE  \/ \E p \in Procs, sig \in Schemes : ListForExport(p, sig)
         \/ /\ UNCHANGED lone
            /\ \A q \in Procs : pc'[q] \in ExportSteps =>
                 /\ pc[q] \in ExportSteps
                 /\ \/ loc'[q].entries = loc[q].entries
                    \/ pc[q] = "hash" /\ HashNext(q)
  <1> DEFINE Same(q) == /\ pc[q] \in ExportSteps
                        /\ loc'[q].entries = loc[q].entries \/ (pc[q] = "hash" /\ HashNext(q))
             Goal == UNCHANGED lone /\ \A q \in Procs : pc'[q] \in ExportSteps => Same(q)
  <1>0. Typing /\ SourceKept /\ Manifests
    BY DEF ExportInv
  <1>1. ASSUME UNCHANGED lone, NEW p \in Procs, \A x \in Procs : x # p => pc'[x] = pc[x] /\ loc'[x] = loc[x],
               pc'[p] \in ExportSteps => Same(p)
        PROVE  Goal
    BY <1>1
  <1>2. ASSUME UNCHANGED lone, NEW p \in Procs, End(p)
        PROVE  Goal
    BY <1>0, <1>1, <1>2, EndTyped
  <1>3. ASSUME NEW p \in Procs, ExportNext(p)
        PROVE  (\E sig \in Schemes : ListForExport(p, sig)) \/ Goal
    <2>1. \A x \in Procs : x # p => pc'[x] = pc[x] /\ loc'[x] = loc[x]
      BY <1>3, ExportMoves
    <2>2. CASE pc[p] = "hash" /\ HashNext(p) /\ UNCHANGED lone
      BY <1>1, <2>1, <2>2
    <2>3. CASE /\ UNCHANGED lone
               /\ \/ pc[p] = "copy" /\ OpenNext(p)
                  \/ CopyFill(p)
                  \/ OpenManifest(p)
      <3>1. loc'[p].entries = loc[p].entries /\ pc[p] \in ExportSteps
        BY <1>3, <2>3, WritingExporting DEF CopyFill, OpenManifest
      <3> QED
        BY <1>1, <2>1, <2>3, <3>1
    <2>4. CASE UNCHANGED lone /\ (End(p) \/ WriteManifest(p))
      BY <1>2, <2>4 DEF WriteManifest
    <2> QED
      BY <1>3, <2>2, <2>3, <2>4, ExportCases
  <1>4. ASSUME NEW p \in Procs, MountNext(p)
        PROVE  Goal
    <2>0. UNCHANGED lone
      BY <1>4 DEF MountNext
    <2>1. CASE \E key \in Keys : BeginMount(p, key)
      <3>1. pc'[p] = "init" /\ \A x \in Procs : x # p => pc'[x] = pc[x] /\ loc'[x] = loc[x]
        BY <1>0, <2>1, MountBeginFacts
      <3> QED
        BY <1>1, <2>0, <3>1
    <2>2. CASE InitTarget(p)
      <3>1. CASE InitNext(p)
        <4>1. pc'[p] = "mount" /\ \A x \in Procs : x # p => pc'[x] = pc[x] /\ loc'[x] = loc[x]
          BY <1>0, <3>1, InitFacts
        <4> QED
          BY <1>1, <2>0, <4>1
      <3> QED
        BY <1>2, <2>0, <2>2, <3>1, InitCases
    <2>3. CASE MountFile(p)
      <3>1. CASE FileNext(p)
        <4>1. loc[p].left # <<>>
          BY <2>3, LeftFacts, MountFileCases
        <4>2. pc'[p] = "insert" /\ \A x \in Procs : x # p => pc'[x] = pc[x] /\ loc'[x] = loc[x]
          BY <1>0, <3>1, <4>1, FileFacts
        <4> QED
          BY <1>1, <2>0, <4>2
      <3> QED
        BY <1>2, <2>0, <2>3, <3>1, MountFileCases
    <2>4. CASE MountInsert(p)
      <3>1. loc[p].left # <<>>
        BY <2>4, LeftFacts DEF MountInsert
      <3>2. pc'[p] \in {"idle", "mount"} /\ \A x \in Procs : x # p => pc'[x] = pc[x] /\ loc'[x] = loc[x]
        BY <1>0, <2>4, <3>1, MountInsertFacts
      <3> QED
        BY <1>1, <2>0, <3>2
    <2> QED
      BY <1>4, <2>1, <2>2, <2>3, <2>4 DEF MountNext
  <1>5. CASE (\E p \in Procs : Kill(p)) /\ UNCHANGED lone
    BY <1>2, <1>5 DEF Kill
  <1>6. CASE UNCHANGED <<pc, loc, lone>>
    BY <1>6
  <1> QED
    BY <1>3, <1>4, <1>5, <1>6 DEF Next, SourceNext, FaultNext, vars

\* An export that lists while another is under way is not alone, nor is that one
\* any more.
LEMMA AloneStep ==
  ASSUME ExportInv, MountInv, [Next]_vars
  PROVE  Alone'
  <1>0. Typing /\ SourceKept /\ Alone
    BY DEF ExportInv
  <1>1. CASE \E p \in Procs, sig \in Schemes : ListForExport(p, sig)
    <2>1. PICK p \in Procs, sig \in Schemes : ListForExport(p, sig)
      BY <1>1
    <2>2. lone' = IF \E q \in Procs : pc[q] \in ExportSteps THEN Null ELSE p
      BY <2>1 DEF ListForExport
    <2>3. \A q \in Procs : q # p => pc'[q] = pc[q]
      BY <1>0, <2>1, ListFacts
    <2> QED
      BY <2>2, <2>3, CapsuleConstants DEF Alone
  <1>2. CASE UNCHANGED lone /\ \A q \in Procs : pc'[q] \in ExportSteps => pc[q] \in ExportSteps
    BY <1>0, <1>2 DEF Alone
  <1> QED
    BY <1>1, <1>2, EntriesStep

\* While a payload that is in the capsule is never lost from it, what exports and
\* manifests have of it stays.
LEMMA EntriesKept ==
  ASSUME Typing, EntriesWhole, NEW q \in Procs,
         pc[q] \in ExportSteps, loc'[q].entries = loc[q].entries, lone' = q => lone = q,
         \A r \in Records : capsule[r] # Absent => capsule'[r] # Absent
  PROVE  (\A i \in 1..Len(loc[q].entries) :
            Kept(loc[q].entries[i]) /\ (lone = q => Copied(loc[q].entries[i])))'
  <1> DEFINE e == loc[q].entries
  <1>1. e \in Seq(EntryType)
    BY LocFields
  <1>2. \A i \in 1..Len(e) : Kept(e[i]) /\ (lone = q => Copied(e[i]))
    BY DEF EntriesWhole
  <1>3. \A i \in 1..Len(e) : e[i].rec \in Records
    <2> HIDE DEF e
    <2> QED
      BY <1>1, GraphFacts
  <1>4. \A i \in 1..Len(e) : capsule'[e[i].rec] # Absent /\ (lone' = q => e[i].chunk = Enc(e[i].rec, OldKey))
    <2> HIDE DEF e
    <2> QED
      BY <1>2, <1>3 DEF Kept, Copied
  <1> QED
    BY <1>4 DEF Kept, Copied

LEMMA ManifestsKept ==
  ASSUME ManifestsWhole, Manifests, manifest' \subseteq manifest, alone' = alone, written' = written,
         \A r \in Records : capsule[r] # Absent => capsule'[r] # Absent
  PROVE  ManifestsWhole'
  <1>1. ASSUME NEW m \in manifest', NEW i \in 1..Len(m.entries)
        PROVE  capsule'[m.entries[i].rec] # Absent
    <2>1. m.entries \in Seq(EntryType) /\ Kept(m.entries[i])
      BY <1>1 DEF ManifestsWhole, Manifests, Original
    <2>2. m.entries[i].rec \in Records
      BY <1>1, <2>1, GraphFacts
    <2> QED
      BY <2>1, <2>2 DEF Kept
  <1> QED
    BY <1>1 DEF ManifestsWhole, Kept, Copied

\* The capsule and who is writing to it stay.
LEMMA CopiesKept ==
  ASSUME CopiesWhole, UNCHANGED capsule,
         \A q \in Procs : /\ pc[q] = "fill" <=> pc'[q] = "fill"
                          /\ pc[q] = "fill" => loc'[q] = loc[q]
  PROVE  CopiesWhole'
  <1>1. \A r \in Records : Filling(r) => Filling(r)'
    BY DEF Filling
  <1> QED
    BY <1>1 DEF CopiesWhole

\* Without faults, a step that is no export's leaves exports and capsule alone.
LEMMA ElsewhereStep ==
  ASSUME ExportInv, MountInv, [Next]_vars, faults' = 0
  PROVE  /\ faults = 0
         /\ \/ \E p \in Procs : ExportNext(p)
            \/ /\ UNCHANGED <<capsule, manifest, history>>
               /\ \A q \in Procs : pc[q] \in ExportSteps \/ pc'[q] \in ExportSteps =>
                                     pc'[q] = pc[q] /\ loc'[q] = loc[q]
  <1>0. Typing /\ Manifests
    BY DEF ExportInv
  <1>1. ~FaultNext /\ faults = 0
    <2>1. ASSUME FaultNext PROVE FALSE
      <3>1. Fault
        BY <2>1 DEF FaultNext, DamagePayload, DamageManifest, Kill
      <3> QED
        BY <1>0, <3>1, FaultTyped
    <2> QED
      BY <2>1, ExportCases DEF Next, SourceNext, MountNext, vars
  <1>2. ASSUME NEW p \in Procs, MountNext(p)
        PROVE  /\ UNCHANGED <<capsule, manifest, history>>
               /\ pc[p] \notin ExportSteps /\ pc'[p] \notin ExportSteps
               /\ \A q \in Procs : q # p => pc'[q] = pc[q] /\ loc'[q] = loc[q]
    <2>0. UNCHANGED <<capsule, manifest, history>>
      BY <1>2 DEF MountNext
    <2>1. CASE \E key \in Keys : BeginMount(p, key)
      BY <1>0, <2>0, <2>1, MountBeginFacts
    <2>2. CASE InitTarget(p)
      BY <1>0, <2>0, <2>2, InitCases, InitFacts, EndTyped
    <2>3. CASE MountFile(p)
      <3>1. pc[p] = "mount" /\ loc[p].left # <<>>
        BY <2>3, LeftFacts, MountFileCases
      <3>2. CASE FileNext(p)
        BY <1>0, <2>0, <3>1, <3>2, FileFacts
      <3>3. CASE End(p)
        BY <1>0, <2>0, <3>1, <3>3, EndTyped
      <3> QED
        BY <2>3, <3>2, <3>3, MountFileCases
    <2>4. CASE MountInsert(p)
      <3>1. loc[p].left # <<>>
        BY <2>4, LeftFacts DEF MountInsert
      <3>2. /\ pc[p] = "insert" /\ pc'[p] \in {"idle", "mount"}
            /\ \A q \in Procs : q # p => pc'[q] = pc[q] /\ loc'[q] = loc[q]
        BY <1>0, <2>4, <3>1, MountInsertFacts
      <3> QED
        BY <2>0, <3>2
    <2> QED
      BY <1>2, <2>1, <2>2, <2>3, <2>4 DEF MountNext
  <1>3. CASE UNCHANGED <<capsule, manifest, history, pc, loc>>
    BY <1>1, <1>3
  <1>4. CASE \E p \in Procs : MountNext(p)
    BY <1>1, <1>2, <1>4
  <1> QED
    BY <1>1, <1>3, <1>4 DEF Next, SourceNext, vars

\* While nothing is damaged or killed, the payloads of the source are its own.
LEMMA SourceWholeStep ==
  ASSUME ExportInv, MountInv, SourceWhole, [Next]_vars, faults' = 0
  PROVE  SourceWhole'
  <1>0. Typing /\ SourceKept
    BY DEF ExportInv
  <1>1. CASE \E r \in Records : Put(r)
    BY <1>0, <1>1, PutFacts DEF SourceWhole
  <1>2. CASE \E r \in Records : Tombstone(r)
    BY <1>0, <1>2, TombstoneFacts DEF SourceWhole
  <1>3. CASE UNCHANGED source
    BY <1>3 DEF SourceWhole
  <1>4. ASSUME FaultNext PROVE FALSE
    <2>1. Fault
      BY <1>4 DEF FaultNext, DamagePayload, DamageManifest, Kill
    <2> QED
      BY <1>0, <2>1, FaultTyped
  <1> QED
    BY <1>1, <1>2, <1>3, <1>4, ExportCases DEF Next, SourceNext, MountNext, vars

\* A copy is opened.
LEMMA OpenWhole ==
  ASSUME ExportInv, MountInv, SourceWhole, CopiesWhole, NEW p \in Procs, pc[p] = "copy", OpenNext(p)
  PROVE  CopiesWhole' /\ \A r \in Records : capsule[r] # Absent => capsule'[r] # Absent
  <1> DEFINE r == Head(loc[p].left)
  <1>0. Typing
    BY DEF ExportInv
  <1>1. /\ r \in Records /\ source[r] \notin {Null, Absent}
        /\ pc'[p] = "fill" /\ loc'[p] = [loc[p] EXCEPT !.bytes = source[r]]
        /\ capsule'[r] = Damaged
        /\ \A q \in Procs : q # p => pc'[q] = pc[q] /\ loc'[q] = loc[q]
        /\ \A x \in Records : x # r => capsule'[x] = capsule[x]
    BY <1>0, LeftFacts, OpenFacts
  <1>2. loc'[p].bytes = source[r] /\ loc'[p].left = loc[p].left
    <2>1. loc[p] \in LocType
      BY <1>0, LocFields
    <2> HIDE DEF r
    <2> QED
      BY <1>1, <2>1 DEF LocType
  <1>3. source[r] = Enc(r, OldKey)
    BY <1>1 DEF SourceWhole
  <1>4. \A q \in Procs : pc'[q] = "fill" => loc'[q].bytes = Enc(Head(loc'[q].left), OldKey)
    BY <1>1, <1>2, <1>3 DEF CopiesWhole
  <1>5. pc'[p] = "fill" /\ Head(loc'[p].left) = r
    BY <1>1, <1>2
  <1> HIDE DEF r
  <1>6. \A x \in Records : Filling(x) => Filling(x)'
    BY <1>1 DEF Filling
  <1>7. ASSUME NEW x \in Records PROVE capsule'[x] \in {Absent, Enc(x, OldKey)} \/ Filling(x)'
    <2>1. CASE x = r
      BY <1>5, <2>1 DEF Filling, r
    <2>2. CASE x # r
      <3>1. capsule'[x] = capsule[x] /\ (capsule[x] \in {Absent, Enc(x, OldKey)} \/ Filling(x))
        BY <1>1, <2>2 DEF CopiesWhole
      <3> QED
        BY <1>6, <3>1
    <2> QED
      BY <2>1, <2>2
  <1>8. Damaged # Absent
    BY CapsuleConstants
  <1> QED
    BY <1>1, <1>4, <1>7, <1>8 DEF CopiesWhole

\* A copy is written.
LEMMA FillWhole ==
  ASSUME ExportInv, MountInv, CopiesWhole, NEW p \in Procs, CopyFill(p)
  PROVE  CopiesWhole' /\ \A r \in Records : capsule[r] # Absent => capsule'[r] # Absent
  <1> DEFINE r == Head(loc[p].left)
  <1>0. Typing /\ Exporting(p)
    BY LeftFacts DEF ExportInv, CopyFill
  <1>1. /\ r \in Records /\ pc[p] = "fill" /\ pc'[p] = "hash"
        /\ capsule'[r] = loc[p].bytes
        /\ \A q \in Procs : q # p => pc'[q] = pc[q] /\ loc'[q] = loc[q]
        /\ \A x \in Records : x # r => capsule'[x] = capsule[x]
    BY <1>0, FillFacts
  <1>2. capsule'[r] = Enc(r, OldKey)
    BY <1>1 DEF CopiesWhole
  <1>3. \A q \in Procs : pc'[q] = "fill" => loc'[q].bytes = Enc(Head(loc'[q].left), OldKey)
    BY <1>1 DEF CopiesWhole
  <1>4. ASSUME NEW x \in Records, x # r, Filling(x) PROVE Filling(x)'
    BY <1>1, <1>4 DEF Filling
  <1> HIDE DEF r
  <1>5. \A x \in Records : capsule'[x] \in {Absent, Enc(x, OldKey)} \/ Filling(x)'
    BY <1>1, <1>2, <1>4 DEF CopiesWhole
  <1>6. Enc(r, OldKey) # Absent
    BY <1>1, EncFacts
  <1> QED
    BY <1>1, <1>2, <1>3, <1>5, <1>6 DEF CopiesWhole

\* A copy is hashed; while an export is alone, no other is writing to it.
LEMMA HashWhole ==
  ASSUME ExportInv, MountInv, CopiesWhole, EntriesWhole, NEW p \in Procs, pc[p] = "hash", HashNext(p),
         UNCHANGED <<capsule, lone>>
  PROVE  (\A i \in 1..Len(loc[p].entries) :
            Kept(loc[p].entries[i]) /\ (lone = p => Copied(loc[p].entries[i])))'
  <1> DEFINE e == loc[p].entries
             r == Head(loc[p].left)
             a == Append(e, Entry(r))
  <1>0. Typing /\ Exporting(p)
    BY LeftFacts DEF ExportInv
  <1>1. r \in Records /\ capsule[r] # Absent /\ loc'[p].entries = a
    BY <1>0, HashFacts
  <1>2. e \in Seq(EntryType) /\ \A i \in 1..Len(e) : Kept(e[i]) /\ (lone = p => Copied(e[i]))
    BY <1>0, LocFields DEF EntriesWhole
  <1>3. Entry(r) \in EntryType /\ Entry(r).rec = r /\ Entry(r).chunk = capsule[r]
    BY <1>0, <1>1, EntryFacts
  <1>4. lone = p => capsule[r] = Enc(r, OldKey)
    <2>1. lone = p => \A q \in Procs : pc[q] # "fill"
      BY DEF ExportInv, Alone
    <2> HIDE DEF r
    <2> QED
      BY <1>1, <2>1 DEF CopiesWhole, Filling
  <1> HIDE DEF e, r
  <1>5. /\ Len(a) = Len(e) + 1 /\ Len(e) \in Nat
        /\ \A i \in 1..Len(e) : a[i] = e[i]
        /\ a[Len(e) + 1] = Entry(r)
    BY <1>2, <1>3, AppendProperties, LenProperties
  <1> HIDE DEF a
  <1>6. \A i \in 1..Len(a) : capsule[a[i].rec] # Absent /\ (lone = p => a[i].chunk = Enc(a[i].rec, OldKey))
    <2> TAKE i \in 1..Len(a)
    <2>1. i \in 1..Len(e) \/ i = Len(e) + 1
      BY <1>5
    <2>2. CASE i \in 1..Len(e)
      BY <1>2, <1>5, <2>2 DEF Kept, Copied
    <2>3. CASE i = Len(e) + 1
      BY <1>1, <1>3, <1>4, <1>5, <2>3
    <2> QED
      BY <2>1, <2>2, <2>3
  <1> QED
    BY <1>1, <1>6 DEF Kept, Copied

\* A manifest is written.
LEMMA WriteWhole ==
  ASSUME ExportInv, EntriesWhole, ManifestsWhole, NEW p \in Procs, WriteManifest(p), UNCHANGED capsule
  PROVE  ManifestsWhole'
  <1> DEFINE m == NewManifest(loc[p].sig, loc[p].entries)
  <1>1. /\ pc[p] = "write" /\ manifest' \subseteq {m} /\ written' = written \cup {m}
        /\ alone' = IF lone = p THEN alone \cup {m} ELSE alone
    BY DEF WriteManifest
  <1>2. m.entries = loc[p].entries
    BY DEF NewManifest
  <1> HIDE DEF m
  <1>3. \A i \in 1..Len(m.entries) : Kept(m.entries[i]) /\ (lone = p => Copied(m.entries[i]))
    BY <1>1, <1>2 DEF EntriesWhole
  <1> QED
    BY <1>1, <1>3 DEF ManifestsWhole, Kept, Copied

\* While nothing is damaged or killed, copies and what exports know of them stay
\* whole.
LEMMA UndamagedStep ==
  ASSUME ExportInv, MountInv, Undamaged, [Next]_vars
  PROVE  Undamaged'
  <1> SUFFICES ASSUME faults' = 0
               PROVE  SourceWhole' /\ CopiesWhole' /\ EntriesWhole' /\ ManifestsWhole'
    BY DEF Undamaged
  <1> DEFINE Monotone == \A r \in Records : capsule[r] # Absent => capsule'[r] # Absent
             Done == CopiesWhole' /\ EntriesWhole' /\ ManifestsWhole'
  <1>0. Typing /\ SourceKept /\ Manifests
    BY DEF ExportInv
  <1>1. SourceWhole /\ CopiesWhole /\ EntriesWhole /\ ManifestsWhole
    BY ElsewhereStep DEF Undamaged
  <1>2. SourceWhole'
    BY <1>1, SourceWholeStep
  <1>3. ASSUME Monotone, UNCHANGED lone, NEW q \in Procs, pc[q] \in ExportSteps, loc'[q].entries = loc[q].entries
        PROVE  (\A i \in 1..Len(loc[q].entries) :
                  Kept(loc[q].entries[i]) /\ (lone = q => Copied(loc[q].entries[i])))'
    BY <1>0, <1>1, <1>3, EntriesKept
  <1>4. ASSUME Monotone, UNCHANGED lone,
               \A q \in Procs : pc'[q] \in ExportSteps => pc[q] \in ExportSteps /\ loc'[q].entries = loc[q].entries
        PROVE  EntriesWhole'
    BY <1>3, <1>4 DEF EntriesWhole
  <1>5. CASE /\ UNCHANGED <<capsule, manifest, history>>
             /\ \A q \in Procs : pc[q] \in ExportSteps \/ pc'[q] \in ExportSteps =>
                                   pc'[q] = pc[q] /\ loc'[q] = loc[q]
    <2>1. CopiesWhole'
      BY <1>1, <1>5, CopiesKept
    <2>2. EntriesWhole'
      BY <1>4, <1>5
    <2>3. ManifestsWhole'
      BY <1>0, <1>1, <1>5, ManifestsKept
    <2> QED
      BY <1>2, <2>1, <2>2, <2>3
  <1>6. ASSUME NEW p \in Procs, ExportNext(p) PROVE Done
    <2>0. \A q \in Procs : q # p => pc'[q] = pc[q] /\ loc'[q] = loc[q]
      BY <1>6, ExportMoves
    <2>1. CASE (\E sig \in Schemes : ListForExport(p, sig)) /\ UNCHANGED <<capsule, manifest, written, alone>>
      <3>1. pc'[p] = "copy" /\ pc[p] = "idle" /\ loc'[p].entries = <<>>
        BY <1>0, <2>1, ListFacts
      <3>2. \A q \in Procs : q # p => lone' # q
        BY <2>1, CapsuleConstants DEF ListForExport
      <3>3. CopiesWhole'
        BY <1>1, <2>0, <2>1, <3>1, CopiesKept
      <3>4. ManifestsWhole'
        BY <1>0, <1>1, <2>1, ManifestsKept
      <3>5. ASSUME NEW q \in Procs, pc'[q] \in ExportSteps
            PROVE  (\A i \in 1..Len(loc[q].entries) :
                      Kept(loc[q].entries[i]) /\ (lone = q => Copied(loc[q].entries[i])))'
        <4>1. CASE q = p
          <5>1. Len(loc'[q].entries) = 0
            BY <3>1, <4>1, EmptySeq
          <5> QED
            BY <5>1
        <4>2. CASE q # p
          BY <1>0, <1>1, <2>0, <2>1, <3>2, <3>5, <4>2, EntriesKept
        <4> QED
          BY <4>1, <4>2
      <3>6. EntriesWhole'
        BY <3>5 DEF EntriesWhole
      <3> QED
        BY <3>3, <3>4, <3>6
    <2>2. CASE pc[p] \in {"copy", "hash"} /\ End(p) /\ UNCHANGED <<capsule, manifest, history>>
      <3>1. pc'[p] = "idle"
        BY <1>0, <2>2, EndTyped
      <3>2. CopiesWhole'
        BY <1>1, <2>0, <2>2, <3>1, CopiesKept
      <3>3. EntriesWhole'
        BY <1>4, <2>0, <2>2, <3>1
      <3>4. ManifestsWhole'
        BY <1>0, <1>1, <2>2, ManifestsKept
      <3> QED
        BY <3>2, <3>3, <3>4
    <2>3. CASE pc[p] = "copy" /\ OpenNext(p) /\ UNCHANGED <<manifest, history>>
      <3>1. CopiesWhole' /\ Monotone
        BY <1>1, <2>3, OpenWhole
      <3>2. loc'[p].entries = loc[p].entries
        BY <1>6, <2>3, WritingExporting
      <3>3. EntriesWhole'
        BY <1>4, <2>0, <2>3, <3>1, <3>2
      <3>4. ManifestsWhole'
        BY <1>0, <1>1, <2>3, <3>1, ManifestsKept
      <3> QED
        BY <3>1, <3>3, <3>4
    <2>4. CASE CopyFill(p) /\ UNCHANGED <<manifest, history>>
      <3>1. CopiesWhole' /\ Monotone
        BY <1>1, <2>4, FillWhole
      <3>2. loc'[p].entries = loc[p].entries /\ pc[p] = "fill"
        BY <1>6, <2>4, WritingExporting DEF CopyFill
      <3>3. EntriesWhole'
        BY <1>4, <2>0, <2>4, <3>1, <3>2
      <3>4. ManifestsWhole'
        BY <1>0, <1>1, <2>4, <3>1, ManifestsKept
      <3> QED
        BY <3>1, <3>3, <3>4
    <2>5. CASE pc[p] = "hash" /\ HashNext(p) /\ UNCHANGED <<capsule, manifest, history>>
      <3>1. pc'[p] \in {"copy", "manifest"}
        BY <1>0, <2>5, LeftFacts, HashFacts
      <3>2. CopiesWhole'
        BY <1>1, <2>0, <2>5, <3>1, CopiesKept
      <3>3. (\A i \in 1..Len(loc[p].entries) :
               Kept(loc[p].entries[i]) /\ (lone = p => Copied(loc[p].entries[i])))'
        BY <1>1, <2>5, HashWhole
      <3>4. EntriesWhole'
        BY <1>3, <2>0, <2>5, <3>3 DEF EntriesWhole
      <3>5. ManifestsWhole'
        BY <1>0, <1>1, <2>5, ManifestsKept
      <3> QED
        BY <3>2, <3>4, <3>5
    <2>6. CASE OpenManifest(p) /\ UNCHANGED <<capsule, history>>
      <3>1. pc[p] = "manifest" /\ pc'[p] = "write" /\ loc'[p] = loc[p] /\ manifest' = {}
        BY <1>0, <2>6, OpenManifestFacts
      <3>2. CopiesWhole'
        BY <1>1, <2>0, <2>6, <3>1, CopiesKept
      <3>3. EntriesWhole'
        BY <1>4, <2>0, <2>6, <3>1
      <3>4. ManifestsWhole'
        BY <1>0, <1>1, <2>6, <3>1, ManifestsKept
      <3> QED
        BY <3>2, <3>3, <3>4
    <2>7. CASE WriteManifest(p) /\ UNCHANGED <<capsule, lone>>
      <3>1. pc[p] = "write" /\ pc'[p] = "idle"
        BY <1>0, <2>7, EndTyped DEF WriteManifest
      <3>2. CopiesWhole'
        BY <1>1, <2>0, <2>7, <3>1, CopiesKept
      <3>3. EntriesWhole'
        BY <1>4, <2>0, <2>7, <3>1
      <3>4. ManifestsWhole'
        BY <1>1, <2>7, WriteWhole
      <3> QED
        BY <3>2, <3>3, <3>4
    <2> QED
      BY <1>6, <2>1, <2>2, <2>3, <2>4, <2>5, <2>6, <2>7, ExportCases
  <1> QED
    BY <1>2, <1>5, <1>6, ElsewhereStep

\* An undamaged capsule exported under EIP-191 verifies.
LEMMA UndamagedVerifies ==
  ASSUME ExportInv, Undamaged, Schemes = {"eip191"}
  PROVE  ExportVerifies
  <1> SUFFICES ASSUME faults = 0, \A p \in Procs : pc[p] # "fill", NEW m \in manifest \cap alone
               PROVE  VerifyCapsule(m)
    BY DEF ExportVerifies
  <1> DEFINE e == m.entries
  <1>1. Original(m) /\ \A i \in 1..Len(e) : Copied(e[i]) /\ Kept(e[i])
    BY DEF ExportInv, Manifests, Undamaged, ManifestsWhole
  <1>a. \A r \in Records : capsule[r] # Absent => capsule[r] = Enc(r, OldKey)
    BY DEF Undamaged, CopiesWhole, Filling
  <1>2. /\ e \in Seq(EntryType) /\ m.sig = "eip191" /\ \A i \in 1..Len(e) : Honest(e[i])
        /\ m = NewManifest(m.sig, e)
    BY <1>1 DEF Original
  <1>3. ASSUME NEW i \in 1..Len(e)
        PROVE  capsule[e[i].rec] # Absent /\ capsule[e[i].rec] = e[i].payload /\ capsule[e[i].rec] = e[i].chunk
    <2> HIDE DEF e
    <2>1. e[i].rec \in Records /\ Copied(e[i]) /\ Kept(e[i]) /\ Honest(e[i])
      BY <1>1, <1>2, GraphFacts
    <2> QED
      BY <1>a, <2>1 DEF Copied, Kept, Honest
  <1>4. m.root = CapsuleRoot(m.meta, [i \in 1..Len(e) |-> capsule[e[i].rec]], m.graph)
    <2>1. [i \in 1..Len(e) |-> capsule[e[i].rec]] = [i \in 1..Len(e) |-> e[i].chunk]
      BY <1>3
    <2>2. /\ m.root = CapsuleRoot(m.sig, [i \in 1..Len(e) |-> e[i].chunk], Graph(e))
          /\ m.meta = m.sig /\ m.graph = Graph(e)
      BY <1>2 DEF NewManifest
    <2> QED
      BY <2>1, <2>2
  <1> QED
    BY <1>2, <1>3, <1>4 DEF VerifyCapsule, OwnerSigned

-----------------------------------------------------------------------------
(* VerifiedIsExport.                                                       *)

\* The leaves of a capsule's root.
RootLeaves(meta, c, g) == <<meta>> \o c \o <<g>>

LEMMA Leaves ==
  ASSUME NEW meta, NEW c, IsSeq(c), NEW g
  PROVE  /\ IsSeq(RootLeaves(meta, c, g))
         /\ Len(RootLeaves(meta, c, g)) = Len(c) + 2 /\ Len(c) \in Nat
         /\ RootLeaves(meta, c, g)[1] = meta /\ RootLeaves(meta, c, g)[Len(c) + 2] = g
         /\ \A i \in 1..Len(c) : RootLeaves(meta, c, g)[i + 1] = c[i]
  <1>1. PICK S : c \in Seq(S)
    BY DEF IsSeq
  <1> DEFINE V == S \cup {meta, g}
             a == <<meta>>
             b == a \o c
             l == b \o <<g>>
  <1>2. /\ c \in Seq(V) /\ a \in Seq(V) /\ <<g>> \in Seq(V)
        /\ Len(a) = 1 /\ a[1] = meta /\ Len(<<g>>) = 1 /\ <<g>>[1] = g
    <2>1. c \in Seq(V)
      BY <1>1, SeqMonotonic
    <2> QED
      BY <2>1
  <1>3. Len(c) \in Nat
    BY <1>1, LenProperties
  <1>4. /\ b \in Seq(V) /\ Len(b) = Len(c) + 1
        /\ \A i \in 1..(Len(c) + 1) : b[i] = IF i = 1 THEN meta ELSE c[i - 1]
    <2> HIDE DEF V, a
    <2>1. /\ b \in Seq(V) /\ Len(b) = Len(a) + Len(c)
          /\ \A i \in 1..(Len(a) + Len(c)) : b[i] = IF i <= Len(a) THEN a[i] ELSE c[i - Len(a)]
      BY <1>2, ConcatProperties
    <2> HIDE DEF b
    <2>2. Len(b) = Len(c) + 1
      BY <1>2, <1>3, <2>1
    <2>3. ASSUME NEW i \in 1..(Len(c) + 1) PROVE b[i] = IF i = 1 THEN meta ELSE c[i - 1]
      <3>1. b[i] = IF i <= 1 THEN a[i] ELSE c[i - 1]
        BY <1>2, <1>3, <2>1
      <3> QED
        BY <1>2, <1>3, <3>1
    <2> QED
      BY <2>1, <2>2, <2>3
  <1> HIDE DEF b
  <1>5. /\ l \in Seq(V) /\ Len(l) = Len(c) + 2
        /\ \A i \in 1..(Len(c) + 2) : l[i] = IF i <= Len(c) + 1 THEN b[i] ELSE <<g>>[i - (Len(c) + 1)]
    <2> HIDE DEF V
    <2>1. /\ l \in Seq(V) /\ Len(l) = Len(b) + Len(<<g>>)
          /\ \A i \in 1..(Len(b) + Len(<<g>>)) : l[i] = IF i <= Len(b) THEN b[i] ELSE <<g>>[i - Len(b)]
      BY <1>2, <1>4, ConcatProperties
    <2>2. Len(b) + Len(<<g>>) = Len(c) + 2
      BY <1>2, <1>3, <1>4
    <2> QED
      BY <1>4, <2>1, <2>2
  <1> HIDE DEF V, l
  <1>6. l[1] = meta
    <2>1. 1 \in 1..(Len(c) + 2) /\ 1 <= Len(c) + 1 /\ 1 \in 1..(Len(c) + 1)
      BY <1>3
    <2> QED
      BY <1>4, <1>5, <2>1
  <1>7. l[Len(c) + 2] = g
    <2>1. Len(c) + 2 \in 1..(Len(c) + 2) /\ ~(Len(c) + 2 <= Len(c) + 1) /\ (Len(c) + 2) - (Len(c) + 1) = 1
      BY <1>3
    <2> QED
      BY <1>2, <1>5, <2>1
  <1>8. ASSUME NEW i \in 1..Len(c) PROVE l[i + 1] = c[i]
    <2>1. i + 1 \in 1..(Len(c) + 2) /\ i + 1 <= Len(c) + 1 /\ i + 1 \in 1..(Len(c) + 1) /\ i + 1 # 1 /\ (i + 1) - 1 = i
      BY <1>3
    <2> QED
      BY <1>4, <1>5, <2>1
  <1>9. IsSeq(l)
    BY <1>5 DEF IsSeq
  <1> QED
    BY <1>3, <1>5, <1>6, <1>7, <1>8, <1>9 DEF l, b, a, RootLeaves

\* The root of a capsule tells its metadata, its chunks and its graph.
LEMMA CapsuleRootInjective ==
  ASSUME NEW meta, NEW c, NEW g, NEW meta2, NEW c2, NEW g2,
         IsSeq(c), IsSeq(c2), Len(c) = Len(c2),
         CapsuleRoot(meta, c, g) = CapsuleRoot(meta2, c2, g2)
  PROVE  meta = meta2 /\ g = g2 /\ \A i \in 1..Len(c) : c[i] = c2[i]
  <1> DEFINE l  == RootLeaves(meta, c, g)
             l2 == RootLeaves(meta2, c2, g2)
  <1>1. /\ IsSeq(l) /\ Len(l) = Len(c) + 2
        /\ l[1] = meta /\ l[Len(c) + 2] = g /\ \A i \in 1..Len(c) : l[i + 1] = c[i]
    BY Leaves
  <1>2. /\ IsSeq(l2) /\ Len(l2) = Len(c2) + 2
        /\ l2[1] = meta2 /\ l2[Len(c2) + 2] = g2 /\ \A i \in 1..Len(c2) : l2[i + 1] = c2[i]
    BY Leaves
  <1>3. MerkleRoot(l) = MerkleRoot(l2)
    BY DEF CapsuleRoot, RootLeaves
  <1> HIDE DEF l, l2
  <1>4. l = l2
    BY <1>1, <1>2, <1>3, MerkleInjective DEF Comparable
  <1> QED
    BY <1>1, <1>2, <1>4

\* ... and is no garbled root.
LEMMA CapsuleRootHash ==
  ASSUME NEW meta, NEW c, IsSeq(c), NEW g
  PROVE  CapsuleRoot(meta, c, g) # LeafHash(Garbled)
  <1> DEFINE l == RootLeaves(meta, c, g)
  <1>1. IsSeq(l) /\ Len(l) = Len(c) + 2 /\ Len(c) \in Nat
    BY Leaves
  <1>2. CapsuleRoot(meta, c, g) = MerkleRoot(l)
    BY DEF CapsuleRoot, RootLeaves
  <1> HIDE DEF l
  <1>3. Len(l) > 1
    BY <1>1
  <1> QED
    BY <1>1, <1>2, <1>3, MerklePair

\* What verifies is what was written: the root fixes metadata, chunks and
\* graph, the chunks the payloads, and the signature its scheme.
LEMMA VerifiedManifest ==
  ASSUME ExportInv, NEW m \in manifest, VerifyCapsule(m), NEW w, Derived(m, w), Original(w)
  PROVE  /\ m.meta = w.meta /\ m.sig = w.sig /\ m.graph = w.graph /\ m.root = w.root
         /\ \A i \in 1..Len(m.entries) :
              /\ m.entries[i].payload = w.entries[i].payload
              /\ m.entries[i].chunk = w.entries[i].chunk
              /\ capsule[m.entries[i].rec] = Enc(m.entries[i].rec, OldKey)
  <1> DEFINE e == m.entries
             f == w.entries
             n == Len(e)
             c == [i \in 1..n |-> capsule[e[i].rec]]
             d == [i \in 1..n |-> f[i].chunk]
  <1>1. /\ m.sig = "eip191" /\ m.root = CapsuleRoot(m.meta, c, m.graph)
        /\ \A i \in 1..n : capsule[e[i].rec] = e[i].payload /\ capsule[e[i].rec] = e[i].chunk
    BY DEF VerifyCapsule, OwnerSigned
  <1>2. /\ e \in Seq(EntryType) /\ f \in Seq(EntryType) /\ Len(f) = n /\ n \in Nat
        /\ w = NewManifest(w.sig, f) /\ \A i \in 1..n : Honest(f[i])
        /\ \A i \in 1..n : e[i].rec = f[i].rec /\ e[i].payload \in {f[i].payload, Garbled}
    <2>1. e \in Seq(EntryType) /\ f \in Seq(EntryType) /\ Len(f) = n
      BY DEF Derived, Original
    <2>2. n \in Nat
      BY <2>1, LenProperties
    <2> QED
      BY <2>1, <2>2 DEF Derived, Original
  <1>3. w.root = CapsuleRoot(w.meta, d, w.graph)
    BY <1>2 DEF NewManifest
  <1>4. IsSeq(c) /\ Len(c) = n /\ IsSeq(d) /\ Len(d) = n
    <2>1. c = [i \in 1..n |-> c[i]] /\ d = [i \in 1..n |-> d[i]]
      OBVIOUS
    <2> HIDE DEF c, d, n
    <2> QED
      BY <1>2, <2>1, FunctionIsSeq
  <1>5. \A i \in 1..n : c[i] = capsule[e[i].rec] /\ d[i] = f[i].chunk
    OBVIOUS
  <1> HIDE DEF c, d
  <1>6. m.root = w.root
    BY <1>1, <1>4, CapsuleRootHash DEF Derived
  <1>7. CapsuleRoot(m.meta, c, m.graph) = CapsuleRoot(w.meta, d, w.graph)
    BY <1>1, <1>3, <1>6
  <1>8. m.meta = w.meta /\ m.graph = w.graph /\ \A i \in 1..Len(c) : c[i] = d[i]
    BY <1>4, <1>7, CapsuleRootInjective
  <1>9. m.sig = w.sig
    BY <1>1, CapsuleConstants DEF Derived
  <1>10. ASSUME NEW i \in 1..n
         PROVE  e[i].payload = f[i].payload /\ e[i].chunk = f[i].chunk /\ capsule[e[i].rec] = Enc(e[i].rec, OldKey)
    <2>1. capsule[e[i].rec] = f[i].chunk /\ e[i].chunk = f[i].chunk
      BY <1>1, <1>4, <1>5, <1>8
    <2>2. e[i].payload # Garbled
      <3>1. f[i].chunk \in Contents
        BY <1>2 DEF Honest
      <3> QED
        BY <1>1, <2>1, <3>1, Markers
    <2>3. e[i].payload = f[i].payload /\ e[i].rec = f[i].rec /\ f[i].payload = Enc(f[i].rec, OldKey)
      BY <1>2, <2>2 DEF Honest
    <2> QED
      BY <1>1, <2>1, <2>3
  <1> QED
    BY <1>6, <1>8, <1>9, <1>10

LEMMA VerifiedWritten ==
  ASSUME ExportInv
  PROVE  VerifiedIsExport
  <1> SUFFICES ASSUME NEW m \in manifest, VerifyCapsule(m)
               PROVE  /\ \E w \in written : /\ Unlabelled(m.entries) = Unlabelled(w.entries)
                                            /\ m = [w EXCEPT !.entries = m.entries]
                      /\ \A i \in 1..Len(m.entries) :
                           LET r == m.entries[i].rec IN capsule[r] = Enc(r, OldKey)
    BY DEF VerifiedIsExport
  <1>1. PICK w \in written : Derived(m, w) /\ Original(w)
    BY DEF ExportInv, Manifests
  <1>2. /\ m.meta = w.meta /\ m.sig = w.sig /\ m.graph = w.graph /\ m.root = w.root
        /\ \A i \in 1..Len(m.entries) :
             /\ m.entries[i].payload = w.entries[i].payload
             /\ m.entries[i].chunk = w.entries[i].chunk
             /\ capsule[m.entries[i].rec] = Enc(m.entries[i].rec, OldKey)
    BY <1>1, VerifiedManifest
  <1>3. m = [w EXCEPT !.entries = m.entries]
    <2>1. /\ m = [meta |-> m.meta, sig |-> m.sig, entries |-> m.entries, graph |-> m.graph, root |-> m.root]
          /\ w = [meta |-> w.meta, sig |-> w.sig, entries |-> w.entries, graph |-> w.graph, root |-> w.root]
      BY <1>1 DEF Derived, Original, NewManifest
    <2> QED
      BY <1>2, <2>1
  <1>4. Unlabelled(m.entries) = Unlabelled(w.entries)
    <2>1. /\ m.entries \in Seq(EntryType) /\ w.entries \in Seq(EntryType) /\ Len(m.entries) = Len(w.entries)
          /\ \A i \in 1..Len(m.entries) : m.entries[i].rec = w.entries[i].rec
      BY <1>1 DEF Derived, Original
    <2>2. ASSUME NEW i \in 1..Len(m.entries)
          PROVE  [m.entries[i] EXCEPT !.kind = Null] = [w.entries[i] EXCEPT !.kind = Null]
      <3>1. m.entries[i] \in EntryType /\ w.entries[i] \in EntryType
        BY <2>1, GraphFacts
      <3>2. /\ m.entries[i].rec = w.entries[i].rec /\ m.entries[i].payload = w.entries[i].payload
            /\ m.entries[i].chunk = w.entries[i].chunk
        BY <1>2, <2>1
      <3> QED
        BY <3>1, <3>2 DEF EntryType
    <2> QED
      BY <2>1, <2>2 DEF Unlabelled
  <1> QED
    BY <1>2, <1>3, <1>4

-----------------------------------------------------------------------------
(* Mounting.                                                               *)

\* Steps that leave the target's index and log alone.
LEMMA MountKept ==
  ASSUME Typing, MountInv, written \subseteq written', UNCHANGED <<rows, log>>,
         db' = db \/ (db = "absent" /\ db' = "partial"),
         \A r \in Records : files[r] # Absent => files'[r] = files[r],
         \A q \in Procs :
           \/ pc'[q] = pc[q] /\ loc'[q] = loc[q]
           \/ pc'[q] \notin {"init", "mount", "insert"}
           \/ pc'[q] = "init" /\ loc'[q].left # <<>> /\ \E w \in written : loc'[q].left = Graph(w.entries)
  PROVE  MountInv'
  <1>1. \A q \in Mounters' : q \in Mounters /\ pc'[q] = pc[q] /\ loc'[q] = loc[q]
    BY DEF Mounters
  <1>2. (db = "ready" <=> log # <<>>)'
    BY DEF MountInv
  <1>3. ASSUME NEW p \in Procs, pc'[p] = "init"
        PROVE  loc'[p].left # <<>> /\ \E w \in written' : loc'[p].left = Graph(w.entries)
    BY <1>3 DEF MountInv
  <1>4. ASSUME NEW p \in Mounters'
        PROVE  loc'[p].left # <<>> /\ log' # <<>> /\ \E w \in written' : Mounted(w, loc[p].left)'
    <2>1. p \in Mounters /\ loc'[p] = loc[p]
      BY <1>1
    <2>2. loc[p].left # <<>> /\ log # <<>> /\ \E w \in written : Mounted(w, loc[p].left)
      BY <2>1 DEF MountInv
    <2> QED
      BY <2>1, <2>2 DEF Mounted
  <1>5. \A p, q \in Mounters' : p = q
    BY <1>1 DEF MountInv
  <1>6. (log # <<>> => \E w \in written : /\ Len(log) <= Len(w.entries) + 1
                                          /\ \A i \in 2..Len(log) : log[i].rec = w.entries[i - 1].rec)'
    BY DEF MountInv
  <1>7. ASSUME NEW p \in Procs, pc'[p] = "insert"
        PROVE  LET r == Head(loc'[p].left) IN files'[r] = Enc(r, NewKey) /\ rows'[r].status = "none"
    <2> DEFINE r == Head(loc[p].left)
    <2>1. pc[p] = "insert" /\ loc'[p] = loc[p] /\ p \in Mounters
      BY <1>7 DEF Mounters
    <2>2. loc[p].left # <<>> /\ files[r] = Enc(r, NewKey) /\ rows[r].status = "none"
      BY <2>1 DEF MountInv
    <2>3. r \in Records
      BY <2>2, LocFields
    <2> HIDE DEF r
    <2>4. files'[r] = Enc(r, NewKey) /\ rows'[r].status = "none"
      BY <2>2, <2>3, EncFacts
    <2> QED
      BY <2>1, <2>4 DEF r
  <1>8. \A r \in Records : rows'[r].status = "active" => files'[r] = Enc(r, NewKey)
    BY EncFacts DEF MountInv
  <1> QED
    BY <1>2, <1>3, <1>4, <1>5, <1>6, <1>7, <1>8 DEF MountInv

\* The target comes into being.
LEMMA MountInit ==
  ASSUME ExportInv, MountInv, NEW p \in Procs, pc[p] = "init", InitNext(p), UNCHANGED written
  PROVE  MountInv'
  <1>0. Typing /\ \A w \in written : Original(w)
    BY DEF ExportInv, Manifests
  <1>1. /\ pc'[p] = "mount" /\ loc'[p] = loc[p] /\ Len(log') = 1 /\ log' # <<>>
        /\ \A q \in Procs : q # p => pc'[q] = pc[q] /\ loc'[q] = loc[q]
    BY <1>0, InitFacts
  <1>2. db = "absent" /\ db' = "ready" /\ UNCHANGED <<rows, files>>
    BY DEF InitNext
  <1>3. Mounters = {}
    BY <1>2 DEF MountInv
  <1>4. \A q \in Mounters' : q = p
    BY <1>1, <1>3 DEF Mounters
  <1>5. PICK w \in written : loc[p].left # <<>> /\ loc[p].left = Graph(w.entries)
    BY DEF MountInv
  <1>6. /\ Len(loc[p].left) = Len(w.entries) /\ Len(w.entries) \in Nat
        /\ \A i \in 1..Len(w.entries) : loc[p].left[i] = w.entries[i].rec
    BY <1>0, <1>5, GraphFacts DEF Original
  <1>7. Mounted(w, loc[p].left)'
    <2>1. \A i \in 1..Len(loc[p].left) : loc[p].left[i] = w.entries[1 + i - 1].rec
      <3> TAKE i \in 1..Len(loc[p].left)
      <3>1. 1 + i - 1 = i
        BY <1>6
      <3> QED
        BY <1>6, <3>1
    <2>2. 1 + Len(loc[p].left) = Len(w.entries) + 1
      BY <1>6
    <2> QED
      BY <1>1, <2>1, <2>2 DEF Mounted
  <1>8. ASSUME NEW q \in Procs, pc'[q] = "init"
        PROVE  loc'[q].left # <<>> /\ \E x \in written' : loc'[q].left = Graph(x.entries)
    <2>1. q # p
      BY <1>1, <1>8
    <2> QED
      BY <1>1, <1>8, <2>1 DEF MountInv
  <1>9. ASSUME NEW q \in Procs PROVE pc'[q] # "insert"
    <2>1. pc[q] # "insert"
      BY <1>3 DEF Mounters
    <2> QED
      BY <1>1, <2>1
  <1>10. /\ Len(log') <= Len(w.entries) + 1
         /\ \A i \in 2..Len(log') : log'[i].rec = w.entries[i - 1].rec
    BY <1>1, <1>6
  <1>11. \A r \in Records : rows'[r].status = "active" => files'[r] = Enc(r, NewKey)
    BY <1>2 DEF MountInv
  <1>12. \A q \in Mounters' :
           loc'[q].left # <<>> /\ log' # <<>> /\ \E x \in written' : Mounted(x, loc[q].left)'
    BY <1>1, <1>4, <1>5, <1>7
  <1>13. \A q, x \in Mounters' : q = x
    BY <1>4
  <1>14. (db = "ready" <=> log # <<>>)'
    BY <1>1, <1>2
  <1> QED
    BY <1>5, <1>8, <1>9, <1>10, <1>11, <1>12, <1>13, <1>14 DEF MountInv

\* A payload is written for a record that is not there yet.
LEMMA MountWrite ==
  ASSUME ExportInv, MountInv, NEW p \in Procs, pc[p] = "mount", FileNext(p),
         UNCHANGED <<written, db, rows, log>>
  PROVE  MountInv'
  <1> DEFINE r == Head(loc[p].left)
  <1>0. Typing /\ p \in Mounters /\ loc[p].left # <<>>
    BY LeftFacts DEF ExportInv, Mounters
  <1>1. /\ r \in Records /\ pc'[p] = "insert" /\ loc'[p] = loc[p]
        /\ files'[r] = Enc(r, NewKey) /\ files[r] = Absent
        /\ \A q \in Procs : q # p => pc'[q] = pc[q] /\ loc'[q] = loc[q]
        /\ \A x \in Records : x # r => files'[x] = files[x]
    BY <1>0, FileFacts
  <1>2. \A q \in Procs : loc'[q] = loc[q]
    BY <1>1
  <1>3. Mounters' = Mounters
    BY <1>0, <1>1 DEF Mounters
  <1>4. \A q \in Procs : pc'[q] = "init" => pc[q] = "init"
    BY <1>1
  <1>5. \A q \in Procs : pc'[q] = "insert" => q = p
    BY <1>0, <1>3 DEF MountInv, Mounters
  <1>6. rows[r].status = "none"
    <2>1. rows[r].status # "active"
      BY <1>1, EncFacts DEF MountInv
    <2> HIDE DEF r
    <2> QED
      BY <1>0, <1>1, <2>1 DEF Typing
  <1>7. \A x \in Records : rows[x].status = "active" => files'[x] = Enc(x, NewKey)
    <2> HIDE DEF r
    <2> QED
      BY <1>1, <1>6 DEF MountInv
  <1>8. ASSUME NEW q \in Mounters
        PROVE  loc'[q].left # <<>> /\ log' # <<>> /\ \E w \in written' : Mounted(w, loc[q].left)'
    <2>1. loc[q].left # <<>> /\ log # <<>> /\ \E w \in written : Mounted(w, loc[q].left)
      BY <1>8 DEF MountInv
    <2>2. loc'[q] = loc[q]
      BY <1>2, <1>8 DEF Mounters
    <2> QED
      BY <2>1, <2>2 DEF Mounted
  <1>9. ASSUME NEW q \in Procs, pc'[q] = "init"
        PROVE  loc'[q].left # <<>> /\ \E w \in written' : loc'[q].left = Graph(w.entries)
    BY <1>2, <1>4, <1>9 DEF MountInv
  <1>10. ASSUME NEW q \in Procs, pc'[q] = "insert"
         PROVE  LET x == Head(loc'[q].left) IN files'[x] = Enc(x, NewKey) /\ rows'[x].status = "none"
    BY <1>1, <1>5, <1>6, <1>10
  <1>11. /\ (db = "ready" <=> log # <<>>)'
         /\ (log # <<>> => \E w \in written : /\ Len(log) <= Len(w.entries) + 1
                                              /\ \A i \in 2..Len(log) : log[i].rec = w.entries[i - 1].rec)'
    BY DEF MountInv
  <1>12. \A q, x \in Mounters' : q = x
    BY <1>3 DEF MountInv
  <1> QED
    BY <1>3, <1>7, <1>8, <1>9, <1>10, <1>11, <1>12 DEF MountInv

\* One record more is logged, one less is left.
LEMMA MountedNext ==
  ASSUME Typing, NEW w, NEW p \in Procs, loc[p].left # <<>>, log # <<>>, Mounted(w, loc[p].left),
         MountInsert(p), Len(w.entries) \in Nat, NEW t, t = Tail(loc[p].left)
  PROVE  /\ Mounted(w, t)'
         /\ Len(log') <= Len(w.entries) + 1
         /\ \A i \in 2..Len(log') : log'[i].rec = w.entries[i - 1].rec
         /\ log' # <<>>
  <1> DEFINE left == loc[p].left
             n == Len(log)
             k == Len(left)
             r == Head(left)
  <1>1. /\ log' \in Seq(LogType) /\ Len(log') = n + 1 /\ n \in Nat
        /\ \A i \in 1..n : log'[i] = log[i]
        /\ log'[n + 1].rec = r
    <2>1. /\ log' \in Seq(LogType) /\ Len(log') = n + 1 /\ n \in Nat
          /\ \A i \in 1..n : log'[i] = log[i]
          /\ log'[n + 1] = [op |-> "record.mount", soul |-> Soul, rec |-> r]
      BY MountInsertFacts
    <2> QED
      BY <2>1
  <1>2. /\ left \in Seq(Records) /\ r = left[1] /\ 1 \in 1..k
        /\ k \in Nat /\ Len(t) = k - 1 /\ \A i \in 1..(k - 1) : t[i] = left[i + 1]
    BY LocFields, HeadTailProperties, LenProperties
  <1>3. /\ n + k = Len(w.entries) + 1
        /\ \A i \in 2..n : log[i].rec = w.entries[i - 1].rec
        /\ \A i \in 1..k : left[i] = w.entries[n + i - 1].rec
    BY DEF Mounted
  <1>9. n > 0
    <2>1. log \in Seq(LogType)
      BY DEF Typing
    <2> QED
      BY <2>1, EmptySeq, LenProperties
  <1> HIDE DEF left, n, k, r
  <1>4. ASSUME NEW i \in 2..Len(log') PROVE log'[i].rec = w.entries[i - 1].rec
    <2>1. CASE i = n + 1
      <3>1. n + 1 - 1 = n /\ i - 1 = n
        BY <1>1, <2>1
      <3> QED
        BY <1>1, <1>2, <1>3, <2>1, <3>1
    <2>2. CASE i # n + 1
      <3>1. i \in 1..n /\ i \in 2..n
        BY <1>1, <2>2
      <3> QED
        BY <1>1, <1>3, <3>1
    <2> QED
      BY <2>1, <2>2
  <1>5. Len(log') + Len(t) = Len(w.entries) + 1 /\ Len(log') <= Len(w.entries) + 1
    <2> DEFINE m == Len(w.entries)
               x == Len(log')
               y == Len(t)
    <2>1. m \in Nat /\ n + k = m + 1 /\ x = n + 1 /\ y = k - 1 /\ n \in Nat /\ k \in Nat /\ 1 <= k
      BY <1>1, <1>2, <1>3
    <2> HIDE DEF m, x, y
    <2>2. x + y = m + 1 /\ x <= m + 1
      BY <2>1
    <2> QED
      BY <2>2 DEF m, x, y
  <1>6. ASSUME NEW i \in 1..Len(t) PROVE t[i] = w.entries[Len(log') + i - 1].rec
    <2>1. i \in 1..(k - 1) /\ i + 1 \in 1..k /\ Len(log') + i - 1 = n + (i + 1) - 1
      BY <1>1, <1>2
    <2> QED
      BY <1>2, <1>3, <2>1
  <1>7. log' # <<>>
    BY <1>1, EmptySeq
  <1>8. Mounted(w, t)'
    BY <1>4, <1>5, <1>6 DEF Mounted
  <1> QED
    BY <1>4, <1>5, <1>7, <1>8

\* A record's row and its audit entry.
LEMMA MountRow ==
  ASSUME ExportInv, MountInv, NEW p \in Procs, MountInsert(p), UNCHANGED written
  PROVE  MountInv'
  <1> DEFINE r == Head(loc[p].left)
  <1>0. pc[p] = "insert" /\ Typing /\ p \in Mounters /\ loc[p].left # <<>> /\ log # <<>>
    BY DEF MountInsert, ExportInv, Mounters, MountInv
  <1>1. /\ r \in Records /\ UNCHANGED <<db, files>>
        /\ \/ Len(loc[p].left) = 1 /\ pc'[p] = "idle"
           \/ pc'[p] = "mount" /\ loc'[p].left = Tail(loc[p].left) /\ loc'[p].left # <<>>
        /\ \A x \in Records : x # r => rows'[x] = rows[x]
        /\ \A q \in Procs : q # p => pc'[q] = pc[q] /\ loc'[q] = loc[q]
    BY <1>0, MountInsertFacts
  <1>2. files[r] = Enc(r, NewKey)
    BY <1>0 DEF MountInv
  <1>3. PICK w \in written : Mounted(w, loc[p].left)
    BY <1>0 DEF MountInv
  <1>4. Len(w.entries) \in Nat
    BY LenProperties DEF ExportInv, Manifests, Original
  <1>5. \A t : t = Tail(loc[p].left) =>
          /\ Mounted(w, t)'
          /\ Len(log') <= Len(w.entries) + 1
          /\ \A i \in 2..Len(log') : log'[i].rec = w.entries[i - 1].rec
          /\ log' # <<>>
    BY <1>0, <1>3, <1>4, MountedNext
  <1>6. /\ log' # <<>> /\ Len(log') <= Len(w.entries) + 1
        /\ \A i \in 2..Len(log') : log'[i].rec = w.entries[i - 1].rec
    BY <1>5
  <1>7. \A q \in Mounters : q = p
    BY <1>0 DEF MountInv
  <1>8. \A q \in Mounters' : q = p /\ pc'[p] = "mount"
    BY <1>1, <1>7 DEF Mounters
  <1>9. ASSUME NEW q \in Mounters'
        PROVE  loc'[q].left # <<>> /\ log' # <<>> /\ \E x \in written' : Mounted(x, loc[q].left)'
    <2>1. q = p /\ loc'[p].left = Tail(loc[p].left) /\ loc'[p].left # <<>>
      BY <1>1, <1>8
    <2>2. Mounted(w, loc[p].left)'
      BY <1>5, <2>1 DEF Mounted
    <2> QED
      BY <1>6, <2>1, <2>2
  <1>10. ASSUME NEW q \in Procs, pc'[q] = "init"
         PROVE  loc'[q].left # <<>> /\ \E x \in written' : loc'[q].left = Graph(x.entries)
    <2>1. q # p
      BY <1>1, <1>10
    <2> QED
      BY <1>1, <1>10, <2>1 DEF MountInv
  <1>11. \A q \in Procs : pc'[q] # "insert"
    BY <1>1, <1>8 DEF Mounters
  <1>12. \A x \in Records : rows'[x].status = "active" => files'[x] = Enc(x, NewKey)
    <2> HIDE DEF r
    <2> QED
      BY <1>1, <1>2 DEF MountInv
  <1>13. \A q, x \in Mounters' : q = x
    BY <1>8
  <1>14. (db = "ready" <=> log # <<>>)'
    BY <1>0, <1>1, <1>6 DEF MountInv
  <1> QED
    BY <1>6, <1>9, <1>10, <1>11, <1>12, <1>13, <1>14 DEF MountInv

\* Every step keeps what holds of the mounts under way and of the target.
LEMMA MountStep ==
  ASSUME ExportInv, MountInv, [Next]_vars
  PROVE  MountInv'
  <1>0. Typing /\ SourceKept /\ Exports /\ Manifests /\ written \subseteq written'
    BY ManifestsStep DEF ExportInv
  \* Steps that touch nothing of the target's, and put no command into a mount.
  <1>1. ASSUME UNCHANGED target,
               \A q \in Procs : \/ pc'[q] = pc[q] /\ loc'[q] = loc[q]
                                \/ pc'[q] \notin {"init", "mount", "insert"}
        PROVE  MountInv'
    BY <1>0, <1>1, MountKept
  <1>2. ASSUME NEW p \in Procs, End(p), UNCHANGED target PROVE MountInv'
    <2>1. pc'[p] = "idle" /\ \A q \in Procs : q # p => pc'[q] = pc[q] /\ loc'[q] = loc[q]
      BY <1>0, <1>2, EndTyped
    <2> QED
      BY <1>1, <1>2, <2>1
  <1>3. ASSUME NEW p \in Procs, ExportNext(p) PROVE MountInv'
    <2>1. /\ UNCHANGED target /\ pc'[p] \in {"idle"} \cup ExportSteps
          /\ \A q \in Procs : q # p => pc'[q] = pc[q] /\ loc'[q] = loc[q]
      BY <1>3, ExportCases, ExportMoves
    <2> QED
      BY <1>1, <2>1
  <1>4. ASSUME NEW p \in Procs, MountNext(p) PROVE MountInv'
    <2>1. UNCHANGED written
      BY <1>4 DEF MountNext
    <2>2. CASE \E key \in Keys : BeginMount(p, key) /\ UNCHANGED target
      <3>1. /\ pc'[p] = "init" /\ loc'[p].left # <<>> /\ \E w \in written : loc'[p].left = Graph(w.entries)
            /\ \A q \in Procs : q # p => pc'[q] = pc[q] /\ loc'[q] = loc[q]
        BY <1>0, <2>2, MountBeginFacts
      <3>2. UNCHANGED target
        BY <2>2
      <3> QED
        BY <1>0, <3>1, <3>2, MountKept
    <2>3. CASE InitTarget(p)
      BY <1>2, <2>1, <2>3, InitCases, MountInit
    <2>4. CASE MountFile(p)
      BY <1>2, <2>1, <2>4, MountFileCases, MountWrite
    <2>5. CASE MountInsert(p)
      BY <2>1, <2>5, MountRow
    <2> QED
      BY <1>4, <2>2, <2>3, <2>4, <2>5 DEF MountNext
  <1>5. CASE \E p \in Procs : Kill(p)
    <2>1. PICK p \in Procs : Kill(p)
      BY <1>5
    <2>2. /\ pc'[p] = "idle" /\ UNCHANGED <<rows, log>>
          /\ db' = db \/ (db = "absent" /\ db' = "partial")
          /\ \A q \in Procs : q # p => pc'[q] = pc[q] /\ loc'[q] = loc[q]
          /\ \A r \in Records : files[r] # Absent => files'[r] = files[r]
      BY <1>0, <2>1, LeftFacts, KillFacts
    <2> QED
      BY <1>0, <2>2, MountKept
  <1>6. CASE UNCHANGED <<pc, loc>> /\ UNCHANGED target
    BY <1>1, <1>6
  <1> QED
    BY <1>3, <1>4, <1>5, <1>6 DEF Next, SourceNext, FaultNext, vars

-----------------------------------------------------------------------------
(* The theorems.                                                           *)

\* Every reachable state satisfies the inductive invariant.
LEMMA Invariance == Spec => []CapsuleInv
  <1>1. ASSUME CapsuleInv, [Next]_vars PROVE CapsuleInv'
    <2>1. ExportInv /\ Undamaged /\ MountInv
      BY <1>1 DEF CapsuleInv
    <2>2. Typing' /\ SourceKept' /\ Exports' /\ Alone' /\ Manifests'
      BY <1>1, <2>1, TypingStep, ExportsStep, AloneStep, ManifestsStep
    <2>3. Undamaged' /\ MountInv'
      BY <1>1, <2>1, UndamagedStep, MountStep
    <2> QED
      BY <2>2, <2>3 DEF CapsuleInv, ExportInv
  <1> QED
    BY <1>1, InvInit, PTL DEF Spec

LEMMA InvTypeOK == CapsuleInv => CapsuleTypeOK
  <1> SUFFICES ASSUME CapsuleInv PROVE CapsuleTypeOK
    OBVIOUS
  <1>1. Typing /\ SourceKept /\ Manifests /\ MountInv
    BY DEF CapsuleInv, ExportInv
  <1>2. \A r \in Records : r \in Live <=> source[r] \in Contents \ {Absent}
    <2> TAKE r \in Records
    <2>1. source[r] \in Contents \cup {Null}
      BY <1>1 DEF Typing
    <2> QED
      BY <1>1, <2>1, Markers DEF SourceKept
  <1>3. ASSUME NEW m \in written
        PROVE  /\ Len(m.entries) = Cardinality({ m.graph[i] : i \in 1..Len(m.graph) })
               /\ \A i \in 1..Len(m.entries) : m.entries[i].chunk \in Contents \ {Absent}
    <2>1. /\ m.entries \in Seq(EntryType) /\ Distinct(m.graph)
          /\ \A i \in 1..Len(m.entries) : Honest(m.entries[i])
          /\ m.graph = Graph(m.entries)
      <3>1. \A sig, e : NewManifest(sig, e).graph = Graph(e)
        BY DEF NewManifest
      <3>2. Original(m)
        BY <1>1 DEF Manifests
      <3> QED
        BY <3>1, <3>2 DEF Original
    <2>2. m.graph \in Seq(Records) /\ Len(m.graph) = Len(m.entries)
      BY <2>1, GraphFacts
    <2>3. Cardinality(Elements(m.graph)) = Len(m.graph)
      BY <2>1, <2>2, DistinctCard
    <2> QED
      BY <2>1, <2>2, <2>3 DEF Elements, Honest
  <1>4. db = "ready" <=> log # <<>>
    BY <1>1 DEF MountInv
  <1> QED
    BY <1>1, <1>2, <1>3, <1>4 DEF Typing, CapsuleTypeOK

\* Type correctness, one payload file a live record in the source, and one
\* entry a record in every manifest written.
THEOREM CapsuleTyping == Spec => []CapsuleTypeOK
  BY Invariance, InvTypeOK, PTL

\* The manifest of an EIP-191 export that overlapped no other verifies, until
\* something is damaged or killed, whatever is put, tombstoned and exported
\* meanwhile, except while some export is at a file of the capsule.  Under
\* EIP-712 it does not: the run capsule_712 shows it.
THEOREM ExportsVerify ==
  ASSUME Schemes = {"eip191"}
  PROVE  Spec => []ExportVerifies
  <1>1. CapsuleInv => ExportVerifies
    BY UndamagedVerifies DEF CapsuleInv
  <1> QED
    BY <1>1, Invariance, PTL

\* A capsule that verifies is one an export wrote, but for the layers and types
\* of its records, with every payload as the source vault had it.
THEOREM VerifiedAsWritten == Spec => []VerifiedIsExport
  <1>1. CapsuleInv => VerifiedIsExport
    BY VerifiedWritten DEF CapsuleInv
  <1> QED
    BY <1>1, Invariance, PTL

\* A mounted record's payload is that of the source, under the new key.
THEOREM MountsFaithful == Spec => []MountFaithful
  <1>1. CapsuleInv => MountFaithful
    BY DEF CapsuleInv, MountInv, MountFaithful
  <1> QED
    BY <1>1, Invariance, PTL

\* At most one command mounts into a target, and what is mounted are the first
\* records of one capsule, in its order.
THEOREM OneMounts == Spec => []OneMount
  <1>1. CapsuleInv => OneMount
    <2> SUFFICES ASSUME CapsuleInv PROVE OneMount
      OBVIOUS
    <2>1. MountInv /\ log \in Seq(LogType) /\ \A w \in written : Len(w.entries) \in Nat
      BY LenProperties DEF CapsuleInv, ExportInv, Typing, Manifests, Original
    <2>2. Cardinality(Mounters) <= 1
      <3>1. CASE Mounters = {}
        BY <3>1, FS_EmptySet
      <3>2. CASE Mounters # {}
        <4>1. PICK p \in Mounters : TRUE
          BY <3>2
        <4>2. Mounters = {p}
          BY <2>1, <4>1 DEF MountInv
        <4> QED
          BY <4>2, FS_Singleton
      <3> QED
        BY <3>1, <3>2
    <2>3. ASSUME log # <<>>
          PROVE  \E m \in written : \E k \in 0..Len(m.entries) :
                   Len(log) = k + 1 /\ \A i \in 1..k : log[i + 1].rec = m.entries[i].rec
      <3>1. PICK w \in written : /\ Len(log) <= Len(w.entries) + 1
                                 /\ \A i \in 2..Len(log) : log[i].rec = w.entries[i - 1].rec
        BY <2>1, <2>3 DEF MountInv
      <3>2. Len(log) \in Nat /\ Len(log) # 0
        BY <2>1, <2>3, LenProperties, EmptySeq
      <3> DEFINE n == Len(log)
                 k == n - 1
                 m == Len(w.entries)
      <3>3. n \in Nat /\ n # 0 /\ m \in Nat /\ n <= m + 1
        BY <2>1, <3>1, <3>2
      <3> HIDE DEF n, m
      <3>4. k \in 0..m /\ n = k + 1
        BY <3>3
      <3>5. ASSUME NEW i \in 1..k PROVE log[i + 1].rec = w.entries[i].rec
        <4>1. i + 1 \in 2..n /\ (i + 1) - 1 = i
          BY <3>3
        <4> QED
          BY <3>1, <4>1 DEF n
      <3> QED
        BY <3>4, <3>5 DEF n, m
    <2> QED
      BY <2>2, <2>3 DEF OneMount, Mounters
  <1> QED
    BY <1>1, Invariance, PTL

-----------------------------------------------------------------------------
(* Mounting refines AuditedIndex.                                          *)

\* The target's log as AuditedIndex sees it.
Mapped == [i \in 1..Len(log) |-> AsPut(log[i])]

LEMMA MappedFacts ==
  ASSUME log \in Seq(LogType)
  PROVE  IsSeq(Mapped) /\ Len(Mapped) = Len(log) /\ Len(log) \in Nat
  <1>1. Len(log) \in Nat
    BY LenProperties
  <1>2. Mapped = [i \in 1..Len(log) |-> Mapped[i]]
    BY DEF Mapped
  <1> QED
    BY <1>1, <1>2, FunctionIsSeq

\* Appending to the log appends to what AuditedIndex sees of it.
LEMMA MappedAppend ==
  ASSUME log \in Seq(LogType), NEW e \in LogType, log' = Append(log, e)
  PROVE  Mapped' = Append(Mapped, AsPut(e))
  <1>1. /\ log' \in Seq(LogType) /\ Len(log') = Len(log) + 1
        /\ \A i \in 1..Len(log) : log'[i] = log[i]
        /\ log'[Len(log) + 1] = e
    BY AppendProperties
  <1>2. IsSeq(Mapped) /\ Len(Mapped) = Len(log) /\ Len(log) \in Nat
    BY MappedFacts
  <1>3. /\ IsSeq(Append(Mapped, AsPut(e))) /\ Len(Append(Mapped, AsPut(e))) = Len(log) + 1
        /\ \A i \in 1..Len(log) : Append(Mapped, AsPut(e))[i] = Mapped[i]
        /\ Append(Mapped, AsPut(e))[Len(log) + 1] = AsPut(e)
    BY <1>2, AppendAny
  <1>4. /\ Mapped' = [i \in 1..(Len(log) + 1) |-> AsPut(log'[i])]
    BY <1>1 DEF Mapped
  <1>5. \A i \in 1..Len(log) : Mapped[i] = AsPut(log[i])
    BY DEF Mapped
  <1>6. IsSeq(Mapped') /\ Len(Mapped') = Len(log) + 1
    <2> DEFINE c == Mapped'
    <2>1. Len(log) + 1 \in Nat /\ c = [i \in 1..(Len(log) + 1) |-> c[i]]
      BY <1>2, <1>4
    <2> HIDE DEF c
    <2>2. IsSeq(c) /\ Len(c) = Len(log) + 1
      BY <2>1, FunctionIsSeq
    <2> QED
      BY <2>2 DEF c
  <1>7. ASSUME NEW i \in 1..(Len(log) + 1) PROVE Mapped'[i] = Append(Mapped, AsPut(e))[i]
    <2>0. Mapped'[i] = AsPut(log'[i])
      BY <1>4
    <2>1. CASE i = Len(log) + 1
      BY <1>1, <1>3, <2>0, <2>1
    <2>2. CASE i # Len(log) + 1
      <3>1. i \in 1..Len(log)
        BY <1>2, <2>2
      <3> QED
        BY <1>1, <1>3, <1>5, <2>0, <3>1
    <2> QED
      BY <2>1, <2>2
  <1> QED
    BY <1>3, <1>6, <1>7, SameSeq

LEMMA TargetInit == Init => TargetVault!Init
  <1> SUFFICES ASSUME Init PROVE TargetVault!Init
    OBVIOUS
  <1>1. log = <<>> /\ rows = [r \in Records |-> [status |-> "none", soul |-> Null]]
    BY DEF Init
  <1>2. Len(log) = 0
    BY <1>1, EmptySeq
  <1>3. [i \in 1..Len(log) |-> AsPut(log[i])] = <<>>
    <2>1. 1..Len(log) = {}
      BY <1>2
    <2> QED
      BY <2>1
  <1> QED
    BY <1>1, <1>3 DEF TargetVault!Init

\* Each step of the capsule's is a step of the abstract vault or leaves it alone.
LEMMA TargetStep ==
  ASSUME CapsuleInv, [Next]_vars
  PROVE  [TargetVault!Next]_<<rows, Mapped>>
  <1>0. Typing /\ MountInv /\ log \in Seq(LogType)
    BY DEF CapsuleInv, ExportInv, Typing
  <1>1. CASE UNCHANGED <<rows, log>>
    BY <1>1 DEF Mapped
  <1>2. CASE \E p \in Procs : pc[p] = "init" /\ InitNext(p)
    <2>1. /\ db = "absent" /\ UNCHANGED rows
          /\ log' = <<[op |-> "vault.init", soul |-> Null, rec |-> Null]>>
      BY <1>2 DEF InitNext
    <2>2. log = <<>>
      BY <1>0, <2>1 DEF MountInv
    <2> DEFINE e == [op |-> "vault.init", soul |-> Null, rec |-> Null]
    <2>3. e \in LogType /\ log' = Append(log, e)
      BY <2>1, <2>2 DEF LogType
    <2>4. Mapped' = Append(Mapped, AsPut(e))
      BY <1>0, <2>3, MappedAppend
    <2>5. AsPut(e) = e
      BY DEF AsPut
    <2>6. \A i \in DOMAIN Mapped : FALSE
      <3>1. Len(log) = 0
        BY <2>2, EmptySeq
      <3> QED
        BY <3>1 DEF Mapped
    <2>7. TargetVault!SetUp
      BY <2>1, <2>4, <2>5, <2>6 DEF TargetVault!SetUp, TargetVault!Log, Mapped
    <2> QED
      BY <2>7 DEF TargetVault!Next
  <1>3. CASE \E p \in Procs : MountInsert(p)
    <2>1. PICK p \in Procs : MountInsert(p)
      BY <1>3
    <2> DEFINE r == Head(loc[p].left)
               e == [op |-> "record.mount", soul |-> Soul, rec |-> r]
    <2>2. loc[p].left # <<>> /\ rows[r].status = "none"
      BY <1>0, <2>1 DEF MountInsert, MountInv, Mounters
    <2>3. r \in Records /\ log' = Append(log, e) /\ rows' = [rows EXCEPT ![r] = [status |-> "active", soul |-> Soul]]
      BY <1>0, <2>1, <2>2, MountInsertFacts
    <2>4. e \in LogType /\ AsPut(e) = [op |-> "put", soul |-> Soul, rec |-> r]
      BY <2>3 DEF LogType, AsPut
    <2>5. Mapped' = Append(Mapped, AsPut(e))
      BY <1>0, <2>3, <2>4, MappedAppend
    <2> HIDE DEF r
    <2>6. TargetVault!Put(r, Soul)
      BY <2>2, <2>3, <2>4, <2>5 DEF TargetVault!Put, TargetVault!Log, Mapped
    <2> QED
      BY <2>3, <2>6 DEF TargetVault!Next
  <1>4. ASSUME NEW p \in Procs, MountNext(p)
        PROVE  UNCHANGED <<rows, log>> \/ (pc[p] = "init" /\ InitNext(p)) \/ MountInsert(p)
    <2>1. CASE InitTarget(p)
      BY <2>1, InitCases
    <2>2. CASE MountFile(p)
      BY <2>2, MountFileCases
    <2> QED
      BY <1>4, <2>1, <2>2 DEF MountNext
  <1>5. ASSUME NEW p \in Procs, Kill(p) PROVE UNCHANGED <<rows, log>>
    BY <1>5 DEF Kill
  <1> QED
    BY <1>1, <1>2, <1>3, <1>4, <1>5 DEF Next, SourceNext, ExportNext, FaultNext, DamagePayload, DamageManifest, vars

\* Mounting implements the vault's promise: no record appears in the target
\* without the audit entry that accounts for it.
THEOREM MountsAudited == Spec => MountRefinesAuditedIndex
  <1>1. ASSUME CapsuleInv, [Next]_vars
        PROVE  [TargetVault!Next]_<<rows, [i \in 1..Len(log) |-> AsPut(log[i])]>>
    BY <1>1, TargetStep DEF Mapped
  <1> QED
    BY <1>1, TargetInit, Invariance, PTL DEF Spec, MountRefinesAuditedIndex, TargetVault!Spec
=============================================================================
