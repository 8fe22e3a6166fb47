--------------------------------- MODULE Npz ---------------------------------
(***************************************************************************)
(* The .npz files that carry a calibration from the probe to the detector: *)
(* the writer lays out a zip archive, a crash may cut the file, and the    *)
(* reader walks back from its end.  A file is its length and the records   *)
(* that are whole, each at its offset; names, headers and contents have    *)
(* lengths and no characters, and no content looks like a record.  Files   *)
(* from NumPy differ in what Layout takes: extra fields, ZIP64, deflate, a *)
(* comment.                                                                *)
(***************************************************************************)
EXTENDS Integers, Sequences, FiniteSets, SequencesExt, Numerics

CONSTANTS KeyLen,        \* the length of each key
          Arrays,        \* the arrays saved: [key, width, shape, text]
          Layouts,       \* who writes: [local, zip64, deflated, comment]
          MaxMembers     \* bound on the arrays of a file

\* The most a 16-bit field holds.
Max16 == 65535

ASSUME NpzAssumption ==
  /\ \A k \in DOMAIN KeyLen : KeyLen[k] \in 1 .. Max16 - 4
  /\ \A a \in Arrays : /\ a.key \in DOMAIN KeyLen /\ a.width \in Nat \ {0}
                       /\ a.text \in Nat /\ a.shape \in Seq(Nat)
  /\ \A w \in Layouts : /\ w.local \in 0 .. Max16 /\ w.comment \in 0 .. Max16
                        /\ w.zip64 \in BOOLEAN /\ w.deflated \in BOOLEAN
  /\ MaxMembers \in 1 .. Max16 - 1

VARIABLES saved,     \* the arrays of the file, in order
          npzFile,   \* [len, at]
          cut,       \* the writer crashed
          reading,   \* "no", "entries", "done" or "refused"
          entryAt, entriesLeft,   \* p, entries - e
          loaded     \* out

npzVars == <<saved, npzFile, cut, reading, entryAt, entriesLeft, loaded>>

NpzInit ==
  /\ saved = <<>> /\ npzFile = [len |-> 0, at |-> <<>>] /\ cut = FALSE
  /\ reading = "no" /\ entryAt = 0 /\ entriesLeft = 0 /\ loaded = <<>>
-----------------------------------------------------------------------------
Local == 30   Central == 46   Eocd == 22   Z64End == 56   Z64Locator == 20

\* Array::size.  checked_mul refuses what 64 bits cannot hold.
Elements(shape) ==
  LET size[n \in 0 .. Len(shape)] == IF n = 0 THEN 1 ELSE size[n - 1] * shape[n]
  IN  size[Len(shape)]

\* serialize_npy pads the ten bytes before the header, it and its newline.
HeaderLen(a) == LET base == 10 + a.text + 1
                IN  a.text + ((64 - (base % 64)) % 64) + 1

DataLen(a) == Elements(a.shape) * a.width

NpyLen(a) == 10 + HeaderLen(a) + DataLen(a)

\* The .npy of a, size bytes of it left.
Npy(a, left) == [sig |-> "npy", array |-> a, size |-> left]

NameLen(a) == KeyLen[a.key] + 4

\* deflate is external: it stores NumPy's headers in fewer bytes.
StoredLen(a, w) == IF w.deflated THEN NpyLen(a) \div 2 ELSE NpyLen(a)

\* An entry: its local header with its extra field, and its data.
EntryLen(a, w) == Local + NameLen(a) + w.local + StoredLen(a, w)

LocalAt(arrays, w, i) == Sums([j \in DOMAIN arrays |-> EntryLen(arrays[j], w)])[i - 1]

CdExtra(w) == IF w.zip64 THEN 4 + 24 ELSE 0

CentralLen(a, w) == Central + NameLen(a) + CdExtra(w)

CentralAt(arrays, w, i) ==
  LocalAt(arrays, w, Len(arrays) + 1)
    + Sums([j \in DOMAIN arrays |-> CentralLen(arrays[j], w)])[i - 1]

DataAt(arrays, w, i) == LocalAt(arrays, w, i) + Local + NameLen(arrays[i]) + w.local

EndAt(arrays, w) ==
  CentralAt(arrays, w, Len(arrays) + 1) + (IF w.zip64 THEN Z64End + Z64Locator ELSE 0)

LocalRecord(a, w) == [sig |-> "local", size |-> Local, name |-> NameLen(a), extra |-> w.local]

CentralRecord(arrays, w, i) ==
  [sig |-> "central", size |-> Central, key |-> arrays[i].key, name |-> NameLen(arrays[i]),
   extra |-> CdExtra(w), deflated |-> w.deflated, comp |-> StoredLen(arrays[i], w),
   uncomp |-> NpyLen(arrays[i]), local |-> LocalAt(arrays, w, i)]

EndRecord(arrays, w) ==
  [sig |-> "end", size |-> Eocd, entries |-> Len(arrays), cd |-> CentralAt(arrays, w, 1),
   zip64 |-> w.zip64]

\* The ZIP64 records repeat the two fields, at the fixed distance the
\* locator stands before the end.
Z64Record(arrays, w) ==
  [sig |-> "z64", size |-> Z64End, entries |-> Len(arrays), cd |-> CentralAt(arrays, w, 1)]

Records(arrays, w) ==
  {<<LocalAt(arrays, w, i), LocalRecord(arrays[i], w)>> : i \in DOMAIN arrays}
    \cup {<<DataAt(arrays, w, i), Npy(arrays[i], StoredLen(arrays[i], w))>> : i \in DOMAIN arrays}
    \cup {<<CentralAt(arrays, w, i), CentralRecord(arrays, w, i)>> : i \in DOMAIN arrays}
    \cup {<<EndAt(arrays, w), EndRecord(arrays, w)>>}
    \cup (IF w.zip64
          THEN {<<CentralAt(arrays, w, Len(arrays) + 1), Z64Record(arrays, w)>>}
          ELSE {})

FileOf(records, len) ==
  [len |-> len,
   at  |-> [o \in {r[1] : r \in records} |-> (CHOOSE r \in records : r[1] = o)[2]]]

\* What a file of that length has left whole.
CutAt(file, len) ==
  [len |-> len,
   at  |-> [o \in {x \in DOMAIN file.at : x + file.at[x].size <= len} |-> file.at[o]]]
-----------------------------------------------------------------------------
\* save_npz, by the program or by NumPy.
SaveNpz ==
  /\ saved = <<>>
  /\ \E arrays \in SeqOf(Arrays, MaxMembers) \ {<<>>}, w \in Layouts :
       /\ saved' = arrays
       /\ npzFile' = FileOf(Records(arrays, w), EndAt(arrays, w) + Eocd + w.comment)
  /\ UNCHANGED <<cut, reading, entryAt, entriesLeft, loaded>>

\* The file is truncated when opened and written in one call: a crash, or
\* a full disk found out when the stream closes, leaves a first part.
CrashWhileWriting ==
  /\ saved # <<>> /\ reading = "no" /\ ~cut
  /\ \E len \in 0 .. npzFile.len - 1 : npzFile' = CutAt(npzFile, len)
  /\ cut' = TRUE
  /\ UNCHANGED <<saved, reading, entryAt, entriesLeft, loaded>>
-----------------------------------------------------------------------------
Fits(offset, length, limit) == offset <= limit /\ length <= limit - offset

Signed(offset, sig) == offset \in DOMAIN npzFile.at /\ npzFile.at[offset].sig = sig

Refuse == reading' = "refused" /\ UNCHANGED <<entryAt, entriesLeft, loaded>>

\* The end record nearest to the end, behind a comment of any length.
Ends == {i \in DOMAIN npzFile.at : /\ npzFile.at[i].sig = "end"
                                   /\ i <= npzFile.len - Eocd
                                   /\ npzFile.len - i <= Eocd + Max16}

\* Where the entries are: in the end record, or in the ZIP64 one.
Directory(end) ==
  IF ~npzFile.at[end].zip64 THEN npzFile.at[end] ELSE npzFile.at[end - Z64Locator - Z64End]

OpenNpz ==
  /\ saved # <<>> /\ reading = "no"
  /\ IF npzFile.len < Eocd \/ Ends = {}
     THEN Refuse
     ELSE LET dir == Directory(CHOOSE i \in Ends : \A j \in Ends : j <= i)
          IN  IF dir.entries > npzFile.len \div Central
              THEN Refuse
              ELSE /\ reading' = "entries"
                   /\ entryAt' = dir.cd /\ entriesLeft' = dir.entries
                   /\ UNCHANGED loaded
  /\ UNCHANGED <<saved, npzFile, cut>>

\* parse_npy of `size` bytes at an offset.
ParseOK(offset, size) ==
  /\ Signed(offset, "npy") /\ size >= 10
  /\ LET a == npzFile.at[offset].array
     IN  /\ Fits(10, HeaderLen(a), size)
         /\ Fits(10 + HeaderLen(a), DataLen(a), size)

\* Mutated: the central directory's extra length for the local one.
DataStartOfEntry(entry) == entry.local + Local + npzFile.at[entry.local].name + entry.extra

\* The data follow the local header, which has lengths of its own.
DataStart(entry) ==
  entry.local + Local + npzFile.at[entry.local].name + npzFile.at[entry.local].extra

EntryOK(entry) ==
  /\ Fits(entryAt + Central, entry.name + entry.extra, npzFile.len)
  /\ Fits(entry.local, Local, npzFile.len) /\ Signed(entry.local, "local")
  /\ Fits(DataStart(entry), entry.comp, npzFile.len)
  /\ entry.deflated => entry.uncomp <= entry.comp * 1032 + 1024
  /\ ParseOK(DataStart(entry), entry.uncomp)

\* The last of several members of one name is the one kept.
ReadEntry ==
  /\ reading = "entries" /\ entriesLeft > 0
  /\ IF /\ Fits(entryAt, Central, npzFile.len) /\ Signed(entryAt, "central")
        /\ EntryOK(npzFile.at[entryAt])
     THEN LET entry == npzFile.at[entryAt]
          IN  /\ loaded' = [k \in DOMAIN loaded \cup {entry.key} |->
                              IF k = entry.key THEN npzFile.at[DataStart(entry)].array
                              ELSE loaded[k]]
              /\ entryAt' = entryAt + Central + entry.name + entry.extra
              /\ entriesLeft' = entriesLeft - 1
              /\ UNCHANGED reading
     ELSE Refuse
  /\ UNCHANGED <<saved, npzFile, cut>>

CloseNpz ==
  /\ reading = "entries" /\ entriesLeft = 0
  /\ reading' = "done"
  /\ UNCHANGED <<saved, npzFile, cut, entryAt, entriesLeft, loaded>>

NpzNext == SaveNpz \/ CrashWhileWriting \/ OpenNpz \/ ReadEntry \/ CloseNpz

NpzSpec == NpzInit /\ [][NpzNext]_npzVars
-----------------------------------------------------------------------------
Wanted ==
  [k \in {saved[i].key : i \in DOMAIN saved} |->
     saved[CHOOSE i \in DOMAIN saved :
             /\ saved[i].key = k
             /\ \A j \in DOMAIN saved : saved[j].key = k => j <= i]]

(***************************************************************************)
(* A calibration file is read whole or not at all: what is read is exactly *)
(* what was saved, by whichever writer and however much of the file is     *)
(* left, and a complete file is not refused (npy.cpp:288-344, 389-573).    *)
(***************************************************************************)
WholeOrRefused ==
  /\ reading = "done" => loaded = Wanted
  /\ reading = "refused" => cut
=============================================================================
