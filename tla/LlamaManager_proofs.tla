-------------------------- MODULE LlamaManager_proofs --------------------------
(***************************************************************************)
(* Proofs about the files of LlamaManager, for any number of models, pulls, *)
(* requests and sources of any size: an installed model is from one source,  *)
(* and whole unless its pull was cut or two pulls of its name have met; and  *)
(* about its processes.                                                     *)
(***************************************************************************)
EXTENDS LlamaManager, TLAPS

InProgressPull(p) == pull[p].pc \in {"writing", "closed"}

DInv ==
    /\ installed \in [Models -> Files \cup {Nothing}]
    /\ partial \in [Models -> Pulls \cup {Nothing}]
    /\ DOMAIN content = Files /\ DOMAIN pull = Pulls /\ shared \subseteq Files /\ cut \subseteq Files
    /\ \A p \in Pulls :
           /\ DOMAIN pull[p] = {"pc", "model", "source", "file", "at", "put"}
           /\ pull[p].pc \in {"new", "writing", "closed", "over"}
           /\ InProgressPull(p) =>
                  /\ pull[p].model \in Models /\ pull[p].source \in Sources
                  /\ pull[p].file \in Pulls /\ pull[p].at \in 0 .. MaxSize
                  /\ pull[p].at <= Size[pull[p].source] /\ pull[p].put \in 0 .. pull[p].at

\* A file belongs to the name it was created for.
NameInv ==
    /\ \A m \in Models : partial[m] # Nothing =>
           /\ pull[partial[m]].pc # "new" /\ pull[partial[m]].model = m /\ installed[m] # partial[m]
    /\ \A m \in Models : installed[m] \in Pulls =>
           pull[installed[m]].pc # "new" /\ pull[installed[m]].model = m
    /\ \A m \in Models : installed[m] \in Models => installed[m] = m
    /\ \A p \in Pulls : InProgressPull(p) =>
           pull[pull[p].file].pc # "new" /\ pull[pull[p].file].model = pull[p].model

\* Where no two pulls have met, a file has one writer, who holds the .partial and
\* has written all of it, and all that came unless it was cut.
Alone(p) ==
    /\ \A q \in Pulls : InProgressPull(q) /\ pull[q].file = pull[p].file => q = p
    /\ partial[pull[p].model] = pull[p].file
    /\ content[pull[p].file] = Sent(pull[p].source, pull[p].put)
    /\ pull[p].file \notin cut => /\ pull[p].put = pull[p].at
                                  /\ pull[p].pc = "closed" => pull[p].at = Size[pull[p].source]
Writer(p) ==
    /\ pull[p].file \notin shared => Alone(p)
    /\ partial[pull[p].model] \in {Nothing, pull[p].file} \cup shared
WriteInv == \A p \in Pulls : InProgressPull(p) => Writer(p)

FInv == DInv /\ NameInv /\ WriteInv /\ InstalledIsSent

\* What the theorem says of one file; it stays true as long as the file does.
Whole(f) ==
    \E s \in Sources : \E n \in 0 .. Size[s] :
        n <= MaxSize /\ content[f] = Sent(s, n) /\ (f \notin cut => n = Size[s])

LEMMA WholeFiles == InstalledIsSent <=> \A m \in files : installed[m] \notin shared => Whole(installed[m])
BY DEF InstalledIsSent, Whole

LEMMA WholeStays ==
    ASSUME NEW f, Whole(f), content'[f] = content[f], f \in cut => f \in cut'
    PROVE  Whole(f)'
BY DEF Whole

LEMMA WholeFilesStay ==
    ASSUME InstalledIsSent, UNCHANGED <<installed, shared>>,
           \A m \in files : installed[m] \notin shared =>
               /\ content'[installed[m]] = content[installed[m]]
               /\ installed[m] \in cut => installed[m] \in cut'
    PROVE  InstalledIsSent'
<1> SUFFICES ASSUME NEW m \in Models, installed[m] # Nothing, installed[m] \notin shared
             PROVE  Whole(installed[m])'
  BY DEF InstalledIsSent, Whole, files
<1>1. m \in files
  BY DEF files
<1>2. Whole(installed[m])
  BY <1>1, WholeFiles
<1> DEFINE f == installed[m]
<1>3. content'[f] = content[f] /\ (f \in cut => f \in cut')
  BY <1>1
<1>4. f' = f
  OBVIOUS
<1>5. \A g : Whole(g) /\ content'[g] = content[g] /\ (g \in cut => g \in cut') => Whole(g)'
  BY DEF Whole
<1> QED  BY <1>2, <1>3, <1>4, <1>5

LEMMA FInvInit == Init => FInv
<1> SUFFICES ASSUME Init PROVE FInv
  OBVIOUS
<1>1. PICK mix \in Mixes : PInit(mix.pulls)
  BY DEF Init
<1>2. DInv
  BY <1>1 DEF PInit, DInv, InProgressPull, Files
<1>3. NameInv /\ WriteInv
  BY <1>1, FilesAssumption DEF PInit, NameInv, WriteInv, InProgressPull, Files
<1>4. InstalledIsSent
  <2> SUFFICES ASSUME NEW m \in files
               PROVE  \E s \in Sources : \E n \in 0 .. Size[s] :
                          n <= MaxSize /\ content[installed[m]] = Sent(s, n) /\ n = Size[s]
    BY DEF InstalledIsSent
  <2>1. Given \in Sources /\ Size[Given] \in 0 .. Size[Given] /\ Size[Given] <= MaxSize
    BY SizeAssumption
  <2>2. content[installed[m]] = Sent(Given, Size[Given])
    BY <1>1 DEF PInit, Files, files
  <2> QED  BY <2>1, <2>2
<1> QED  BY <1>2, <1>3, <1>4 DEF FInv

LEMMA DiskFrame == FInv /\ UNCHANGED disk => FInv'
BY DEF FInv, DInv, NameInv, WriteInv, Writer, Alone, InstalledIsSent, InProgressPull, disk, files

LEMMA RemoveSound ==
    ASSUME FInv, NEW m, RemoveFile(m)
    PROVE  FInv'
<1>1. DInv'
  BY DEF FInv, DInv, RemoveFile, InProgressPull
<1>2. NameInv'
  BY FilesAssumption DEF FInv, DInv, NameInv, RemoveFile, InProgressPull
<1>3. WriteInv'
  BY DEF FInv, WriteInv, Writer, Alone, RemoveFile, InProgressPull
<1>4. InstalledIsSent'
  BY DEF FInv, DInv, InstalledIsSent, RemoveFile, files
<1> QED  BY <1>1, <1>2, <1>3, <1>4 DEF FInv

LEMMA StopSound ==
    ASSUME FInv, PullsStop
    PROVE  FInv'
<1>1. \A p \in Pulls : /\ DOMAIN pull'[p] = DOMAIN pull[p] /\ ~InProgressPull(p)'
                       /\ pull'[p].pc = (IF InProgressPull(p) THEN "over" ELSE pull[p].pc)
                       /\ pull'[p].model = pull[p].model
  BY DEF FInv, DInv, PullsStop, InProgressPull
<1>2. UNCHANGED <<installed, partial, content, shared, cut>> /\ DOMAIN pull' = Pulls
  BY DEF PullsStop
<1>3. DInv'
  BY <1>1, <1>2 DEF FInv, DInv, InProgressPull
<1>4. NameInv'
  BY <1>1, <1>2 DEF FInv, DInv, NameInv, InProgressPull
<1>5. WriteInv' /\ InstalledIsSent'
  BY <1>1, <1>2 DEF FInv, WriteInv, InstalledIsSent, files
<1> QED  BY <1>3, <1>4, <1>5 DEF FInv

\* A pull that goes on or ends without a rename, its pull changing in one field.
LEMMA OverSound ==
    ASSUME FInv, NEW p \in Pulls, InProgressPull(p), Over(p),
           UNCHANGED <<installed, partial, content, shared, cut>>
    PROVE  FInv'
<1>1. /\ DOMAIN pull' = Pulls /\ \A q \in Pulls \ {p} : pull'[q] = pull[q]
      /\ pull'[p].pc = "over" /\ pull'[p].model = pull[p].model
      /\ DOMAIN pull'[p] = DOMAIN pull[p]
  BY DEF FInv, DInv, Over
<1>2. DInv'
  BY <1>1 DEF FInv, DInv, InProgressPull
<1>3. NameInv'
  BY <1>1 DEF FInv, DInv, NameInv, InProgressPull
<1>4. WriteInv'
  <2> SUFFICES ASSUME NEW q \in Pulls, InProgressPull(q)' PROVE Writer(q)'
    BY DEF WriteInv
  <2>1. q # p /\ pull'[q] = pull[q] /\ InProgressPull(q) /\ Writer(q)
    BY <1>1 DEF FInv, WriteInv, InProgressPull
  <2>2. Alone(q) => Alone(q)'
    BY <1>1, <2>1 DEF Alone, InProgressPull
  <2> QED  BY <2>1, <2>2 DEF Writer
<1>5. InstalledIsSent'
  BY DEF FInv, InstalledIsSent, files
<1> QED  BY <1>2, <1>3, <1>4, <1>5 DEF FInv

LEMMA LastPieceSound ==
    ASSUME FInv, NEW p \in Pulls, LastPiece(p)
    PROVE  FInv'
<1>1. /\ DOMAIN pull' = Pulls /\ \A q \in Pulls \ {p} : pull'[q] = pull[q]
      /\ pull'[p].pc = "closed" /\ pull'[p].model = pull[p].model /\ pull'[p].source = pull[p].source
      /\ pull'[p].file = pull[p].file /\ pull'[p].at = pull[p].at /\ DOMAIN pull'[p] = DOMAIN pull[p]
      /\ pull'[p].put = pull[p].put /\ pull[p].pc = "writing"
      /\ cut' = IF pull[p].at < Size[pull[p].source] THEN cut \cup {pull[p].file} ELSE cut
      /\ UNCHANGED <<installed, partial, content, shared>>
  BY DEF FInv, DInv, LastPiece
<1>2. DInv'
  <2>1. cut' \subseteq Files
    BY <1>1 DEF FInv, DInv, InProgressPull, Files
  <2> QED  BY <1>1, <2>1 DEF FInv, DInv, InProgressPull
<1>3. NameInv'
  BY <1>1 DEF FInv, DInv, NameInv, InProgressPull
<1>4. WriteInv'
  <2> SUFFICES ASSUME NEW q \in Pulls, InProgressPull(q)' PROVE Writer(q)'
    BY DEF WriteInv
  <2>1. \A r \in Pulls : /\ pull'[r].file = pull[r].file /\ pull'[r].model = pull[r].model
                          /\ pull'[r].source = pull[r].source /\ pull'[r].at = pull[r].at
                          /\ pull'[r].put = pull[r].put /\ InProgressPull(r)' <=> InProgressPull(r)
    BY <1>1 DEF InProgressPull
  <2>2. Writer(q)
    <3>1. InProgressPull(q)
      BY <1>1 DEF InProgressPull
    <3> QED  BY <3>1 DEF FInv, WriteInv
  <2>3. Alone(q) => Alone(q)'
    <3>1. CASE q = p
      <4>1. pull[p].at <= Size[pull[p].source] /\ pull[p].at \in Nat /\ Size[pull[p].source] \in Nat
        BY <1>1, SizeAssumption DEF FInv, DInv, InProgressPull
      <4> QED  BY <1>1, <2>1, <3>1, <4>1 DEF Alone
    <3>2. CASE q # p
      BY <1>1, <2>1, <3>2 DEF Alone
    <3> QED  BY <3>1, <3>2
  <2> QED  BY <1>1, <2>1, <2>2, <2>3 DEF Writer
<1>5. InstalledIsSent'
  BY <1>1, WholeFilesStay DEF FInv
<1> QED  BY <1>2, <1>3, <1>4, <1>5 DEF FInv

\* A byte after all those before it.
LEMMA PutNext ==
    ASSUME NEW s, NEW n \in Nat
    PROVE  PutAt(Sent(s, n), n + 1, s) = Sent(s, n + 1)
<1>1. Len(Sent(s, n)) = n
  BY DEF Sent
<1> QED  BY <1>1 DEF PutAt, Sent

LEMMA PieceSound ==
    ASSUME FInv, NEW p \in Pulls, Piece(p)
    PROVE  FInv'
<1> DEFINE f == pull[p].file
           s == pull[p].source
<1>0. /\ InProgressPull(p) /\ pull[p].pc = "writing" /\ f \in Pulls /\ s \in Sources
      /\ pull[p].at \in 0 .. MaxSize /\ pull[p].put \in 0 .. pull[p].at /\ pull[p].at < Size[s]
      /\ Size[s] \in Nat /\ MaxSize \in Nat /\ UNCHANGED <<installed, partial, shared>>
  BY SizeAssumption DEF Piece, FInv, DInv, InProgressPull
<1>1. CASE Over(p) /\ UNCHANGED <<content, cut>>
  BY <1>0, <1>1, OverSound
<1>2. ASSUME NEW n \in {pull[p].put, pull[p].put + 1}, pull[p].at < MaxSize,
             /\ DOMAIN pull' = Pulls /\ \A q \in Pulls \ {p} : pull'[q] = pull[q]
             /\ pull'[p].pc = "writing" /\ pull'[p].model = pull[p].model /\ pull'[p].source = s
             /\ pull'[p].file = f /\ pull'[p].at = pull[p].at + 1 /\ pull'[p].put = n
             /\ DOMAIN pull'[p] = DOMAIN pull[p],
             /\ DOMAIN content' = Files /\ \A g \in Files \ {f} : content'[g] = content[g]
             /\ content[f] = Sent(s, pull[p].put) => content'[f] = Sent(s, n),
             cut \subseteq cut', cut' \subseteq Files, f \in cut' \/ n = pull[p].put + 1
      PROVE  FInv'
  <2>1. pull[p].at \in Nat /\ pull[p].put \in Nat /\ n \in 0 .. pull[p].at + 1
    BY <1>0, <1>2
  <2>2. DInv'
    BY <1>0, <1>2, <2>1 DEF FInv, DInv, InProgressPull
  <2>3. NameInv'
    BY <1>0, <1>2 DEF FInv, DInv, NameInv, InProgressPull
  <2>4. Writer(p)
    BY <1>0 DEF FInv, WriteInv
  <2>5. WriteInv'
    <3> SUFFICES ASSUME NEW q \in Pulls, InProgressPull(q)' PROVE Writer(q)'
      BY DEF WriteInv
    <3>1. \A r \in Pulls : /\ pull'[r].file = pull[r].file /\ pull'[r].model = pull[r].model
                            /\ pull'[r].source = pull[r].source /\ pull'[r].pc = pull[r].pc
                            /\ InProgressPull(r)' <=> InProgressPull(r)
      BY <1>0, <1>2 DEF InProgressPull
    <3>2. Writer(q) /\ pull[q].file \in Pulls
      <4>1. InProgressPull(q)
        BY <1>0, <1>2, <3>1 DEF InProgressPull
      <4> QED  BY <4>1 DEF FInv, DInv, WriteInv
    <3>3. Alone(q) /\ pull[q].file \notin shared => Alone(q)'
      <4>1. CASE q = p
        BY <1>0, <1>2, <2>1, <3>1, <4>1 DEF Alone
      <4>2. CASE q # p
        <5>1. Alone(q) => pull[q].file # f
          BY <1>0, <4>2 DEF Alone
        <5>2. Alone(q) => content'[pull[q].file] = content[pull[q].file]
          BY <1>2, <3>2, <5>1 DEF Files
        <5>3. pull'[q] = pull[q]
          BY <1>2, <4>2
        <5> QED  BY <1>0, <1>2, <3>1, <4>2, <5>2, <5>3 DEF Alone
      <4> QED  BY <4>1, <4>2
    <3>4. UNCHANGED <<partial, shared>>
      BY <1>0
    <3>5. pull'[q].file = pull[q].file /\ pull'[q].model = pull[q].model
      BY <1>2
    <3>6. pull'[q].file \notin shared' => Alone(q)'
      BY <3>2, <3>3, <3>4, <3>5 DEF Writer
    <3>7. partial'[pull'[q].model] \in {Nothing, pull'[q].file} \cup shared'
      BY <3>2, <3>4, <3>5 DEF Writer
    <3> QED  BY <3>6, <3>7 DEF Writer
  <2>6. ASSUME NEW m \in Models, installed[m] = f, f \notin shared PROVE FALSE
    <3>1. partial[pull[p].model] = f /\ pull[p].model \in Models /\ f # Nothing
      BY <1>0, <2>4, <2>6, FilesAssumption DEF Writer, Alone, FInv, DInv
    <3>2. pull[f].model = pull[p].model /\ installed[pull[p].model] # f
      BY <3>1 DEF FInv, NameInv
    <3>3. pull[f].model = m
      BY <1>0, <2>6 DEF FInv, NameInv
    <3> QED  BY <2>6, <3>2, <3>3
  <2>7. InstalledIsSent'
    <3>1. \A m \in files : installed[m] \notin shared => installed[m] \in Files \ {f}
      BY <2>6 DEF FInv, DInv, files
    <3> QED  BY <1>0, <1>2, <3>1, WholeFilesStay DEF FInv
  <2> QED  BY <2>2, <2>3, <2>5, <2>7 DEF FInv
<1>3. CASE /\ pull[p].at < MaxSize
           /\ content' = [content EXCEPT ![f] = PutAt(@, pull[p].put + 1, s)]
           /\ pull' = [pull EXCEPT ![p].at = @ + 1, ![p].put = @ + 1]
           /\ UNCHANGED cut
  <2> DEFINE n == pull[p].put + 1
  <2>1. /\ DOMAIN pull' = Pulls /\ \A q \in Pulls \ {p} : pull'[q] = pull[q]
        /\ pull'[p].pc = "writing" /\ pull'[p].model = pull[p].model /\ pull'[p].source = s
        /\ pull'[p].file = f /\ pull'[p].at = pull[p].at + 1 /\ pull'[p].put = n
        /\ DOMAIN pull'[p] = DOMAIN pull[p]
    BY <1>0, <1>3 DEF FInv, DInv
  <2>2. /\ DOMAIN content' = Files /\ \A g \in Files \ {f} : content'[g] = content[g]
        /\ content'[f] = PutAt(content[f], n, s)
    BY <1>0, <1>3 DEF FInv, DInv, Files
  <2>3. content[f] = Sent(s, pull[p].put) => content'[f] = Sent(s, n)
    BY <1>0, <2>2, PutNext
  <2>4. cut \subseteq cut' /\ cut' \subseteq Files
    BY <1>3 DEF FInv, DInv
  <2> QED  BY <1>2, <1>3, <2>1, <2>2, <2>3, <2>4
<1>4. CASE /\ pull[p].at < MaxSize
           /\ pull' = [pull EXCEPT ![p].at = @ + 1]
           /\ cut' = cut \cup {f}
           /\ UNCHANGED content
  <2>1. /\ DOMAIN pull' = Pulls /\ \A q \in Pulls \ {p} : pull'[q] = pull[q]
        /\ pull'[p].pc = "writing" /\ pull'[p].model = pull[p].model /\ pull'[p].source = s
        /\ pull'[p].file = f /\ pull'[p].at = pull[p].at + 1 /\ pull'[p].put = pull[p].put
        /\ DOMAIN pull'[p] = DOMAIN pull[p]
    BY <1>0, <1>4 DEF FInv, DInv
  <2>2. /\ DOMAIN content' = Files /\ \A g \in Files \ {f} : content'[g] = content[g]
        /\ content[f] = Sent(s, pull[p].put) => content'[f] = Sent(s, pull[p].put)
    BY <1>4 DEF FInv, DInv
  <2>3. cut \subseteq cut' /\ cut' \subseteq Files /\ f \in cut'
    BY <1>0, <1>4 DEF FInv, DInv, Files
  <2> QED  BY <1>2, <1>4, <2>1, <2>2, <2>3
<1> QED  BY <1>1, <1>3, <1>4 DEF Piece

\* Opening the .partial of a name: alone, it is a new beginning.
LEMMA OpenSound ==
    ASSUME FInv, NEW p \in Pulls, NEW m \in Models, NEW s \in Sources, Open(p, m, s)
    PROVE  FInv'
<1> DEFINE f == Opened(p, m)
<1>0. /\ pull[p].pc = "new" /\ ~InProgressPull(p) /\ p # Nothing
      /\ f \in Pulls /\ f \in Files /\ f # Nothing
      /\ (f = p /\ partial[m] = Nothing) \/ (f = partial[m] /\ f # p /\ pull[f].model = m /\ pull[f].pc # "new")
  BY FilesAssumption DEF Open, Opens, Opened, FInv, DInv, NameInv, InProgressPull, Files
<1>1. /\ DOMAIN pull' = Pulls /\ \A q \in Pulls \ {p} : pull'[q] = pull[q]
      /\ pull'[p] = [pc |-> "writing", model |-> m, source |-> s, file |-> f, at |-> 0, put |-> 0]
  BY DEF FInv, DInv, Open, Opens
<1>2. /\ DOMAIN partial' = Models /\ partial'[m] = f
      /\ \A k \in Models \ {m} : partial'[k] = partial[k]
  BY DEF FInv, DInv, Open, Opens
<1>3. /\ DOMAIN content' = Files /\ content'[f] = <<>>
      /\ \A g \in Files \ {f} : content'[g] = content[g]
      /\ UNCHANGED installed
  BY <1>0 DEF FInv, DInv, Open, Opens
<1>4. /\ shared' \in {shared \cup {f}, shared \ {f}} /\ cut' = cut \ {f}
      /\ f \notin shared' => \A q \in Pulls : ~Pulling(q, m)
  BY DEF Open, Opens
<1> HIDE DEF f
<1>5. DInv'
  <2>1. partial' \in [Models -> Pulls \cup {Nothing}]
    BY <1>0, <1>2 DEF FInv, DInv, Open, Opens
  <2>2. 0 \in 0 .. MaxSize /\ 0 <= Size[s]
    BY SizeAssumption
  <2> QED  BY <1>0, <1>1, <1>3, <1>4, <2>1, <2>2 DEF FInv, DInv, InProgressPull
<1>6. pull'[f].model = m /\ pull'[f].pc # "new"
  BY <1>0, <1>1
<1>7. \A k \in Models : installed[k] # f
  BY <1>0 DEF FInv, NameInv
<1>8. NameInv'
  <2>1. \A k \in Models : partial'[k] # Nothing =>
            pull'[partial'[k]].pc # "new" /\ pull'[partial'[k]].model = k /\ installed'[k] # partial'[k]
    BY <1>0, <1>1, <1>2, <1>3, <1>6, <1>7 DEF FInv, DInv, NameInv
  <2>2. \A k \in Models : installed'[k] \in Pulls =>
            pull'[installed'[k]].pc # "new" /\ pull'[installed'[k]].model = k
    BY <1>0, <1>1, <1>3 DEF FInv, NameInv
  <2>3. ASSUME NEW q \in Pulls, InProgressPull(q)'
        PROVE  pull'[pull'[q].file].pc # "new" /\ pull'[pull'[q].file].model = pull'[q].model
    <3>1. CASE q = p
      BY <1>1, <1>6, <3>1
    <3>2. CASE q # p
      <4>1. pull'[q] = pull[q] /\ InProgressPull(q)
        BY <1>1, <2>3, <3>2 DEF InProgressPull
      <4>2. pull[q].file \in Pulls /\ pull[pull[q].file].pc # "new" /\ pull[pull[q].file].model = pull[q].model
        BY <4>1 DEF FInv, DInv, NameInv
      <4> QED  BY <1>0, <1>1, <4>1, <4>2
    <3> QED  BY <3>1, <3>2
  <2> QED  BY <1>3, <2>1, <2>2, <2>3 DEF FInv, NameInv
<1>9. ASSUME NEW q \in Pulls, InProgressPull(q), pull[q].file = f PROVE pull[q].model = m
  BY <1>0, <1>9 DEF FInv, NameInv
<1>10. WriteInv'
  <2> SUFFICES ASSUME NEW q \in Pulls, InProgressPull(q)' PROVE Writer(q)'
    BY DEF WriteInv
  <2>1. CASE q = p
    <3>1. f \notin shared' => \A r \in Pulls : InProgressPull(r)' /\ pull'[r].file = f => r = p
      BY <1>1, <1>4, <1>9 DEF Pulling, InProgressPull
    <3>2. <<>> = Sent(s, 0)
      BY DEF Sent
    <3> QED  BY <1>1, <1>2, <1>3, <2>1, <3>1, <3>2 DEF Writer, Alone
  <2>2. CASE q # p
    <3>1. pull'[q] = pull[q] /\ InProgressPull(q) /\ Writer(q) /\ pull[q].file \in Files
      BY <1>1, <2>2 DEF InProgressPull, FInv, DInv, WriteInv, Files
    <3>2. CASE pull[q].model = m
      <4>1. Pulling(q, m)
        BY <3>1, <3>2 DEF Pulling, InProgressPull
      <4>2. f \in shared' /\ shared' = shared \cup {f}
        BY <1>4, <4>1
      <4>3. pull[q].file \notin shared' => FALSE
        BY <1>0, <3>1, <3>2, <4>2, FilesAssumption DEF Writer, Alone, FInv, DInv
      <4> QED  BY <1>2, <3>1, <3>2, <4>2, <4>3 DEF Writer
    <3>3. CASE pull[q].model # m
      <4>1. pull[q].file # f /\ pull[q].model \in Models
        BY <1>9, <3>1, <3>3 DEF FInv, DInv
      <4>2. partial'[pull[q].model] = partial[pull[q].model] /\ content'[pull[q].file] = content[pull[q].file]
        BY <1>2, <1>3, <3>1, <3>3, <4>1
      <4>3. partial[pull[q].model] # f
        BY <1>0, <3>3, <4>1 DEF FInv, NameInv
      <4>4. Alone(q) => Alone(q)'
        BY <1>1, <1>4, <3>1, <4>1, <4>2 DEF Alone, InProgressPull
      <4> QED  BY <1>4, <3>1, <4>1, <4>2, <4>3, <4>4 DEF Writer
    <3> QED  BY <3>2, <3>3
  <2> QED  BY <2>1, <2>2
<1>11. InstalledIsSent'
  <2> SUFFICES ASSUME NEW k \in Models, installed[k] # Nothing, installed[k] \notin shared'
               PROVE  Whole(installed[k])'
    BY <1>3 DEF InstalledIsSent, Whole, files
  <2>1. k \in files /\ installed[k] # f /\ installed[k] \in Files /\ installed[k] \notin shared
    BY <1>4, <1>7 DEF files, FInv, DInv
  <2>2. Whole(installed[k])
    BY <2>1, WholeFiles DEF FInv
  <2> DEFINE g == installed[k]
  <2>3. content'[g] = content[g] /\ (g \in cut <=> g \in cut') /\ g' = g
    BY <1>3, <1>4, <2>1
  <2>4. \A h : Whole(h) /\ content'[h] = content[h] /\ (h \in cut <=> h \in cut') => Whole(h)'
    BY DEF Whole
  <2> QED  BY <2>2, <2>3, <2>4
<1> QED  BY <1>5, <1>8, <1>10, <1>11 DEF FInv

\* The rename: what it installs is its own, and whole, or shared.
LEMMA RenameSound ==
    ASSUME FInv, NEW p \in Pulls, RenamePartial(p)
    PROVE  FInv'
<1> DEFINE m == pull[p].model
<1>0. InProgressPull(p) /\ pull[p].pc = "closed" /\ m \in Models /\ Over(p) /\ Writer(p)
  BY DEF RenamePartial, InProgressPull, FInv, DInv, WriteInv
<1>1. CASE partial[m] = Nothing
  BY <1>0, <1>1, OverSound DEF RenamePartial
<1>2. CASE partial[m] # Nothing
  <2> DEFINE f == partial[m]
  <2>1. /\ DOMAIN pull' = Pulls /\ \A q \in Pulls \ {p} : pull'[q] = pull[q]
        /\ pull'[p].pc = "over" /\ pull'[p].model = m /\ DOMAIN pull'[p] = DOMAIN pull[p]
    BY <1>0 DEF FInv, DInv, Over
  <2>2. /\ installed' = [installed EXCEPT ![m] = f] /\ partial' = [partial EXCEPT ![m] = Nothing]
        /\ UNCHANGED <<content, shared, cut>>
    BY <1>2 DEF RenamePartial
  <2>3. f \in Pulls /\ f \in Files /\ pull[f].model = m /\ pull[f].pc # "new"
    BY <1>0, <1>2 DEF FInv, DInv, NameInv, Files
  <2>4. /\ DOMAIN installed' = Models /\ installed'[m] = f
        /\ \A k \in Models \ {m} : installed'[k] = installed[k]
        /\ DOMAIN partial' = Models /\ partial'[m] = Nothing
        /\ \A k \in Models \ {m} : partial'[k] = partial[k]
    BY <1>0, <2>2 DEF FInv, DInv
  <2> HIDE DEF f
  <2>5. DInv'
    BY <2>1, <2>2, <2>3 DEF FInv, DInv, InProgressPull
  <2>6. \A q \in Pulls : pull'[q].model = pull[q].model /\ (pull'[q].pc = "new" <=> pull[q].pc = "new")
    BY <1>0, <2>1
  <2>7. NameInv'
    <3>1. \A k \in Models : partial'[k] # Nothing =>
              pull'[partial'[k]].pc # "new" /\ pull'[partial'[k]].model = k /\ installed'[k] # partial'[k]
      BY <2>4, <2>6 DEF FInv, DInv, NameInv
    <3>2. \A k \in Models : installed'[k] \in Pulls =>
              pull'[installed'[k]].pc # "new" /\ pull'[installed'[k]].model = k
      BY <2>3, <2>4, <2>6 DEF FInv, NameInv
    <3>3. \A k \in Models : installed'[k] \in Models => installed'[k] = k
      BY <2>3, <2>4, FilesAssumption DEF FInv, NameInv
    <3>4. \A q \in Pulls : InProgressPull(q)' =>
              pull'[pull'[q].file].pc # "new" /\ pull'[pull'[q].file].model = pull'[q].model
      BY <2>1, <2>6 DEF FInv, DInv, NameInv, InProgressPull
    <3> QED  BY <3>1, <3>2, <3>3, <3>4 DEF NameInv
  <2>8. WriteInv'
    <3> SUFFICES ASSUME NEW q \in Pulls, InProgressPull(q)' PROVE Writer(q)'
      BY DEF WriteInv
    <3>1. q # p /\ pull'[q] = pull[q] /\ InProgressPull(q) /\ Writer(q) /\ pull[q].model \in Models
      BY <2>1 DEF InProgressPull, FInv, DInv, WriteInv
    <3>2. CASE pull[q].model = m
      <4>1. pull[q].file \in shared
        <5> SUFFICES ASSUME pull[q].file \notin shared PROVE FALSE
          OBVIOUS
        <5>1. partial[m] = pull[q].file /\ (pull[p].file \notin shared => pull[p].file = partial[m])
          BY <1>0, <3>1, <3>2 DEF Writer, Alone
        <5>2. pull[p].file = pull[q].file
          BY <1>0, <1>2, <5>1 DEF Writer
        <5> QED  BY <1>0, <3>1, <5>2 DEF Writer, Alone
      <4> QED  BY <2>2, <2>4, <3>1, <3>2, <4>1 DEF Writer
    <3>3. CASE pull[q].model # m
      <4>1. Alone(q) => Alone(q)'
        BY <2>1, <2>2, <2>4, <3>1, <3>3 DEF Alone, InProgressPull
      <4> QED  BY <2>2, <2>4, <3>1, <3>3, <4>1 DEF Writer
    <3> QED  BY <3>2, <3>3
  <2>9. f \notin shared => Whole(f)
    <3> SUFFICES ASSUME f \notin shared PROVE Whole(f)
      OBVIOUS
    <3>1. pull[p].file = f /\ Alone(p)
      BY <1>0, <1>2 DEF f, Writer
    <3>2. /\ pull[p].source \in Sources /\ pull[p].at \in 0 .. MaxSize /\ pull[p].put \in 0 .. pull[p].at
          /\ pull[p].at <= Size[pull[p].source] /\ Size[pull[p].source] \in Nat /\ MaxSize \in Nat
      BY <1>0, SizeAssumption DEF FInv, DInv
    <3>3. content[f] = Sent(pull[p].source, pull[p].put)
          /\ (f \notin cut => pull[p].put = Size[pull[p].source])
      BY <1>0, <3>1 DEF Alone
    <3> QED  BY <3>2, <3>3 DEF Whole
  <2>10. InstalledIsSent'
    <3> SUFFICES ASSUME NEW k \in Models, installed'[k] # Nothing, installed'[k] \notin shared
                 PROVE  Whole(installed'[k])
      BY <2>2 DEF InstalledIsSent, Whole, files
    <3>1. CASE k = m
      BY <2>4, <2>9, <3>1
    <3>2. CASE k # m
      <4>1. k \in files /\ installed'[k] = installed[k]
        BY <2>4, <3>2 DEF files
      <4> QED  BY <4>1, WholeFiles DEF FInv
    <3> QED  BY <3>1, <3>2
  <2> QED  BY <2>5, <2>7, <2>8, <2>10 DEF FInv
<1> QED  BY <1>1, <1>2

LEMMA PullSound ==
    ASSUME FInv, NEW p \in Pulls, PullStep(p)
    PROVE  FInv'
<1>1. ASSUME NEW ask \in Asked[p], Open(p, ask[1], ask[2]) PROVE FInv'
  <2>1. ask[1] \in Models /\ ask[2] \in Sources
    BY SizeAssumption
  <2> QED  BY <1>1, <2>1, OpenSound
<1>2. CASE PullBreaks(p)
  BY <1>2, OverSound DEF PullBreaks, InProgressPull
<1> QED  BY <1>1, <1>2, PieceSound, LastPieceSound, RenameSound DEF PullStep

\* No step but those of pulls, a deletion and a stop of the container touches the files.
LEMMA FInvNext == FInv /\ [Next]_vars => FInv'
<1> SUFFICES ASSUME FInv, [Next]_vars PROVE FInv'
  OBVIOUS
<1>1. CASE UNCHANGED vars
  BY <1>1, DiskFrame DEF vars
<1>2. CASE Microtasks
  BY <1>2, DiskFrame DEF Microtasks, Wake, Continue
<1>3. CASE Reboot
  BY <1>3, StopSound DEF Reboot
<1>4. ASSUME NEW p \in Pulls, PullGoesOn(p) PROVE FInv'
  BY <1>4, PullSound DEF PullGoesOn
<1>5. ASSUME NEW o \in Ops, Calls(o) PROVE FInv'
  BY <1>5, DiskFrame DEF Calls, Load, Delete, Unload, RestartModel, Begin
<1>6. ASSUME NEW o \in Ops, Remove(o) PROVE FInv'
  BY <1>6, RemoveSound DEF Remove
<1>7. ASSUME NEW o \in Ops, Steps(o), ~Remove(o) PROVE UNCHANGED disk
  BY <1>7 DEF Steps, Go, RestoreSpawns, KillHarder, Healthy, Unhealthy, Write, Clear
<1>8. ASSUME NEW o \in Ops, Exit(o) \/ Listen(o) PROVE UNCHANGED disk
  BY <1>8 DEF Exit, Listen
<1>9. CASE RestoreReads
  BY <1>9, DiskFrame DEF RestoreReads
<1> QED  BY <1>1, <1>2, <1>3, <1>4, <1>5, <1>6, <1>7, <1>8, <1>9, DiskFrame DEF Next

\* The invariant of the files: each belongs to one name, and one that no two pulls
\* of its name have opened has at most one writer and holds what has been written.
THEOREM FilesInvariant == Spec => []FInv
<1> QED  BY FInvInit, FInvNext, PTL DEF Spec

\* An installed model is all that one source has sent, and not too large, whatever
\* pulls broke or were stopped before, unless two pulls of its name have met
\* (pullFromUrl of llamacpp-manager/models.ts).
THEOREM InstalledModelsAreSent == Spec => []InstalledIsSent
<1>1. FInv => InstalledIsSent
  BY DEF FInv
<1> QED  BY <1>1, FilesInvariant, PTL

-----------------------------------------------------------------------------
(* The processes.                                                            *)

Fields == {"kind", "model", "pc", "victim", "ending", "later", "result"}
Active == {"term", "kill", "killed", "health", "write", "writing", "clear"}
Killing(o) == req[o].pc \in {"term", "kill"}

\* Every operation under way but the restore is the first of its chain.  The
\* restore never kills but after a failure.
ChainInv ==
    /\ queue \in Seq(Requests)
    /\ DOMAIN req = Ops /\ \A o \in Ops : DOMAIN req[o] = Fields
    /\ \A o \in Requests : req[o].pc \in Active => Holder(o)
    /\ req[Boot].pc \notin {"queued", "write", "writing", "clear", "remove"}
    /\ Killing(Boot) \/ At(Boot, "killed") => req[Boot].ending
    /\ procs \subseteq Ops /\ child \in procs \cup {Nobody}

\* Whose child it may be, by where a request has come.
ChildInv ==
    \A o \in Requests :
        /\ req[o].pc \in {"killed", "clear"} => child \notin Requests
        /\ req[o].pc \in {"health", "write", "writing"} => child \in {o, Nobody, Boot}
        /\ req[o].pc \in {"new", "queued", "remove"} => child # o

\* What a request has loaded with success is what .last_loaded.json names, as long
\* as it is the child.
ServedInv ==
    /\ \A o \in Ops : req[o].result = "ok" => At(o, "done")
    /\ child \in Requests /\ req[child].result = "ok" => last = req[child].model

\* As long as the restore has not killed under a request: its victim is its own
\* child, nobody waits for the end of a process while another one runs, and a request
\* that waits for the same process as the restore comes after it.
OrderInv ==
    /\ Killing(Boot) => req[Boot].victim = Boot
    /\ \A o \in Ops : Killing(o) /\ req[o].victim \notin procs => procs = {}
    /\ \A o \in Requests :
          /\ At(o, "term") /\ At(Boot, "term") => req[o].later /\ req[o].victim = Boot
          /\ At(o, "kill") => ~At(Boot, "term")
          /\ At(o, "killed") => ~Killing(Boot)
          /\ At(o, "health") /\ child # o => o \in fell
    /\ procs \subseteq {child}

PrInv == ChainInv /\ ChildInv /\ ServedInv /\ (~meddled => OrderInv)

\* The steps change one entry of req.
Only(o) == DOMAIN req' = Ops /\ \A q \in Ops \ {o} : req'[q] = req[q]

LEMMA GotoEffect ==
    ASSUME ChainInv, NEW o \in Ops, NEW c, Goto(o, c)
    PROVE  /\ Only(o) /\ DOMAIN req'[o] = Fields /\ req'[o].pc = c
           /\ req'[o].kind = req[o].kind /\ req'[o].model = req[o].model /\ req'[o].victim = req[o].victim
           /\ req'[o].ending = req[o].ending /\ req'[o].later = req[o].later /\ req'[o].result = req[o].result
BY DEF ChainInv, Goto, Only, Fields

LEMMA AnswerEffect ==
    ASSUME ChainInv, NEW o \in Ops, NEW v, Answer(o, v)
    PROVE  /\ Only(o) /\ DOMAIN req'[o] = Fields /\ req'[o].pc = "done"
           /\ req'[o].model = req[o].model /\ req'[o].result = v
<1> DEFINE n == [New EXCEPT !.pc = "done", !.model = req[o].model, !.result = v]
<1>1. n.pc = "done" /\ n.model = req[o].model /\ n.result = v /\ DOMAIN n = Fields
  BY DEF New, Fields
<1>2. req' = [req EXCEPT ![o] = n]
  BY DEF Answer
<1> HIDE DEF n
<1> QED  BY <1>1, <1>2 DEF ChainInv, Only

LEMMA KillEffect ==
    ASSUME ChainInv, NEW o \in Ops, NEW e, Kill(o, e)
    PROVE  /\ Only(o) /\ DOMAIN req'[o] = Fields
           /\ req'[o].pc = (IF child = Nobody THEN "killed" ELSE "term")
           /\ req'[o].victim = child /\ req'[o].ending = e
           /\ req'[o].later = (\E q \in Ops : Waiting(q, child))
           /\ req'[o].model = req[o].model /\ req'[o].result = req[o].result
           /\ meddled' = (meddled \/ (o = Boot /\ child # Boot /\ child # Nobody)
                                  \/ (o = Boot /\ child # Nobody /\ queue # <<>>))
<1>1. /\ Only(o) /\ DOMAIN req'[o] = Fields
      /\ req'[o].pc = (IF child = Nobody THEN "killed" ELSE "term")
      /\ req'[o].victim = child /\ req'[o].ending = e
      /\ req'[o].model = req[o].model /\ req'[o].result = req[o].result
  BY DEF ChainInv, Kill, Only, Fields
<1>2. req'[o].later = (\E q \in Ops : Waiting(q, child))
  BY DEF ChainInv, Kill, Fields
<1> QED  BY <1>1, <1>2 DEF Kill

\* At most one request is under way.
LEMMA OneHolder ==
    ASSUME ChainInv, NEW o \in Requests, NEW q \in Requests,
           req[o].pc \in Active, req[q].pc \in Active
    PROVE  o = q
BY DEF ChainInv, Holder

\* Nobody is in the chain but requests.
LEMMA BootNeverHolds == ChainInv => ~Holder(Boot)
<1> SUFFICES ASSUME ChainInv, Holder(Boot) PROVE FALSE
  OBVIOUS
<1>1. Head(queue) \in Requests
  BY DEF ChainInv, Holder
<1> QED  BY <1>1, OpsAssumption DEF Holder

LEMMA LeaveEffect ==
    ASSUME ChainInv, NEW o \in Ops, Leave(o)
    PROVE  queue' \in Seq(Requests) /\ \A q \in Requests \ {o} : Holder(q) => Holder(q)'
BY DEF ChainInv, Leave, Holder

LEMMA AppendEffect ==
    ASSUME ChainInv, NEW o \in Requests, queue' = Append(queue, o)
    PROVE  queue' \in Seq(Requests) /\ \A q \in Requests : Holder(q) => Holder(q)'
BY DEF ChainInv, Holder

LEMMA PrInit == Init => PrInv
<1> SUFFICES ASSUME Init PROVE PrInv
  OBVIOUS
<1>1. /\ DOMAIN req = Ops /\ procs = {} /\ child = Nobody /\ queue = <<>>
      /\ \A o \in Ops : req[o] \in {New, Gone}
  BY DEF Init
<1>2. ASSUME NEW r \in {New, Gone}
      PROVE  DOMAIN r = Fields /\ r.pc \in {"new", "gone"} /\ r.result = "none"
  BY DEF New, Gone, Fields
<1>3. \A o \in Ops : DOMAIN req[o] = Fields /\ req[o].pc \in {"new", "gone"} /\ req[o].result = "none"
  BY <1>1, <1>2
<1>4. ChainInv
  BY <1>1, <1>3 DEF ChainInv, Active, Killing, At, Ops
<1>5. ChildInv /\ ServedInv
  BY <1>1, <1>3, OpsAssumption DEF ChildInv, ServedInv, At, Ops
<1>6. OrderInv
  BY <1>1, <1>3 DEF OrderInv, Killing, At, Ops
<1> QED  BY <1>4, <1>5, <1>6 DEF PrInv

LEMMA PrFrame == PrInv /\ UNCHANGED <<last, procs, child, req, queue, hist>> => PrInv'
BY DEF PrInv, ChainInv, ChildInv, ServedInv, OrderInv, hist, Holder, At, Killing

\* A request comes: it waits in the chain.
LEMMA BeginPr ==
    ASSUME PrInv, NEW o \in Ops, NEW k, NEW m, Begin(o, k, m)
    PROVE  PrInv'
<1>1. /\ o \in Requests /\ o # Boot /\ At(o, "new") /\ UNCHANGED <<last, procs, child, fell, meddled>>
      /\ queue' = Append(queue, o)
  BY DEF Begin, Ops, hist
<1>2. /\ Only(o) /\ DOMAIN req'[o] = Fields /\ req'[o].pc = "queued" /\ req'[o].result = req[o].result
  BY DEF Begin, PrInv, ChainInv, Only, Fields
<1>3. queue' \in Seq(Requests) /\ \A q \in Requests : Holder(q) => Holder(q)'
  BY <1>1, AppendEffect DEF PrInv
<1>4. ChainInv'
  BY <1>1, <1>2, <1>3 DEF PrInv, ChainInv, Only, Active, Killing, At, Ops
<1>5. ChildInv'
  BY <1>1, <1>2 DEF PrInv, ChildInv, Only, Ops, At
<1>6. ServedInv'
  BY <1>1, <1>2 DEF PrInv, ServedInv, Only, Ops, At
<1>7. OrderInv => OrderInv'
  BY <1>1, <1>2 DEF OrderInv, Only, Killing, At, Ops
<1> QED  BY <1>1, <1>4, <1>5, <1>6, <1>7 DEF PrInv

\* A deletion waits for nobody.
LEMMA DeletePr ==
    ASSUME PrInv, NEW o \in Ops, \/ \E m \in Models : Delete(o, m)
                                \/ Remove(o)
    PROVE  PrInv'
<1>1. /\ req[o].pc \in {"new", "remove"} /\ UNCHANGED <<last, procs, child, queue, fell, meddled>>
      /\ req[o].pc = "new" => o # Boot
  BY DEF Delete, Remove, At, hist
<1>2. /\ Only(o) /\ DOMAIN req'[o] = Fields /\ req'[o].pc \in {"remove", "done"}
      /\ req'[o].result = "ok" => req'[o].pc = "done"
  <2>1. CASE \E m \in Models : Delete(o, m)
    <3> PICK m \in Models : Delete(o, m)
      BY <2>1
    <3>1. Only(o) /\ DOMAIN req'[o] = Fields /\ req'[o].pc = "remove" /\ req'[o].result = req[o].result
      BY DEF Delete, PrInv, ChainInv, Only, Fields
    <3> QED  BY <3>1 DEF Delete, PrInv, ServedInv, At
  <2>2. CASE Remove(o)
    BY <2>2, AnswerEffect DEF Remove, PrInv
  <2> QED  BY <2>1, <2>2
<1>3. o \in Requests /\ o # Boot
  BY <1>1 DEF PrInv, ChainInv, Ops
<1>4. ChainInv'
  BY <1>1, <1>2, <1>3 DEF PrInv, ChainInv, Only, Active, Killing, At, Ops, Holder
<1>5. ChildInv'
  BY <1>1, <1>2, <1>3 DEF PrInv, ChildInv, Only, Ops
<1>6. child # o
  BY <1>1, <1>2, <1>3 DEF PrInv, ChildInv
<1>7. ServedInv'
  BY <1>1, <1>2, <1>3, <1>6 DEF PrInv, ServedInv, Only, Ops, At
<1>8. OrderInv => OrderInv'
  BY <1>1, <1>2, <1>3 DEF OrderInv, Only, Killing, At, Ops
<1> QED  BY <1>1, <1>4, <1>5, <1>7, <1>8 DEF PrInv

\* A process ends: if it is the one a request waits for, the request has not
\* been overtaken by a kill, and what has happened is written down.
LEMMA ExitPr ==
    ASSUME PrInv, NEW p, Exit(p)
    PROVE  PrInv'
<1>1. /\ p \in procs /\ p \in Ops /\ procs' = procs \ {p} /\ child' = (IF child = p THEN Nobody ELSE child)
      /\ UNCHANGED <<last, req, queue, meddled>>
  BY DEF Exit, PrInv, ChainInv
<1>2. Nobody \notin Ops /\ Boot \notin Requests
  BY OpsAssumption
<1>3. ChainInv'
  BY <1>1, <1>2 DEF PrInv, ChainInv, Holder, At, Killing
<1>4. ChildInv'
  BY <1>1, <1>2 DEF PrInv, ChildInv, Ops
<1>5. ServedInv'
  BY <1>1, <1>2 DEF PrInv, ServedInv, At, Ops
<1>6. ASSUME OrderInv PROVE OrderInv'
  <2>1. (Killing(Boot) => req[Boot].victim = Boot)'
    BY <1>1, <1>6 DEF OrderInv, Killing
  <2>2. procs = {child} /\ p = child /\ procs' = {}
    BY <1>1, <1>6 DEF OrderInv
  <2>3. ASSUME NEW o \in Requests, At(o, "health"), child' # o PROVE o \in fell'
    <3>1. CASE child # o
      BY <1>6, <2>3, <3>1 DEF OrderInv, Exit
    <3>2. CASE child = o
      <4>1. ASSUME NEW q \in Ops, req[q].pc \in {"term", "kill"}, req[q].victim = p PROVE FALSE
        <5>1. CASE q = Boot
          BY <1>2, <1>6, <2>2, <3>2, <4>1, <5>1 DEF OrderInv, Killing
        <5>2. CASE q \in Requests
          <6>1. q = o
            BY <2>3, <4>1, <5>2, OneHolder DEF PrInv, Active, At
          <6> QED  BY <2>3, <4>1, <6>1 DEF At
        <5> QED  BY <5>1, <5>2 DEF Ops
      <4> QED  BY <2>2, <2>3, <3>2, <4>1 DEF Exit
    <3> QED  BY <3>1, <3>2
  <2>4. ASSUME NEW o \in Requests
        PROVE  /\ At(o, "term") /\ At(Boot, "term") => req[o].later /\ req[o].victim = Boot
               /\ At(o, "kill") => ~At(Boot, "term")
               /\ At(o, "killed") => ~Killing(Boot)
    BY <1>6 DEF OrderInv
  <2> QED  BY <1>1, <2>1, <2>2, <2>3, <2>4 DEF OrderInv, At, Killing
<1> QED  BY <1>1, <1>3, <1>4, <1>5, <1>6 DEF PrInv

\* SIGKILL: a request that waits for the same process as the restore has come later.
LEMMA KillHarderPr ==
    ASSUME PrInv, NEW o \in Ops, KillHarder(o)
    PROVE  PrInv'
<1>1. /\ At(o, "term") /\ UNCHANGED <<last, procs, child, queue, fell, meddled>>
      /\ Only(o) /\ DOMAIN req'[o] = Fields /\ req'[o].pc = "kill"
      /\ req'[o].victim = req[o].victim /\ req'[o].ending = req[o].ending
      /\ req'[o].later = req[o].later /\ req'[o].result = req[o].result /\ req'[o].model = req[o].model
  BY GotoEffect DEF KillHarder, PrInv, hist
<1>2. ChainInv'
  BY <1>1 DEF PrInv, ChainInv, Only, Active, Killing, At, Ops, Holder
<1>3. ChildInv'
  BY <1>1 DEF PrInv, ChildInv, Only, Ops
<1>4. ServedInv'
  BY <1>1 DEF PrInv, ServedInv, Only, Ops, At
<1>5. ASSUME OrderInv PROVE OrderInv'
  <2>1. o \in Requests => ~At(Boot, "term")
    <3> SUFFICES ASSUME o \in Requests, At(Boot, "term") PROVE FALSE
      OBVIOUS
    <3>1. req[o].later /\ req[o].victim = Boot /\ req[Boot].victim = Boot
      BY <1>1, <1>5 DEF OrderInv, Killing, At
    <3>2. Boot \in Ops \ {o} /\ Waiting(Boot, Boot)
      BY <3>1, OpsAssumption DEF Ops, Waiting
    <3> QED  BY <3>1, <3>2 DEF KillHarder
  <2>2. ASSUME NEW q \in Requests
        PROVE  ( /\ At(q, "term") /\ At(Boot, "term") => req[q].later /\ req[q].victim = Boot
                 /\ At(q, "kill") => ~At(Boot, "term")
                 /\ At(q, "killed") => ~Killing(Boot)
                 /\ At(q, "health") /\ child # q => q \in fell )'
    BY <1>1, <1>5, <2>1, OpsAssumption DEF OrderInv, Only, At, Killing, Ops
  <2>3. ( /\ Killing(Boot) => req[Boot].victim = Boot
          /\ procs \subseteq {child} )'
    BY <1>1, <1>5 DEF OrderInv, Only, At, Killing, Ops
  <2>4. (\A q \in Ops : Killing(q) /\ req[q].victim \notin procs => procs = {})'
    BY <1>1, <1>5 DEF OrderInv, Only, At, Killing
  <2> QED  BY <2>2, <2>3, <2>4 DEF OrderInv
<1> QED  BY <1>1, <1>2, <1>3, <1>4, <1>5 DEF PrInv

LEMMA WakeEffect ==
    ASSUME ChainInv, NEW w \in {"term", "kill"}, Wake(w)
    PROVE  /\ DOMAIN req' = Ops /\ \A q \in Ops \ Woken(w) : req'[q] = req[q]
           /\ \A q \in Woken(w) : /\ DOMAIN req'[q] = Fields /\ req'[q].pc = "killed"
                                  /\ req'[q].victim = req[q].victim /\ req'[q].ending = req[q].ending
                                  /\ req'[q].later = req[q].later /\ req'[q].result = req[q].result
           /\ \A q \in Woken(w) : q \in Ops /\ At(q, w) /\ req[q].victim \notin procs
<1>1. ASSUME NEW r, DOMAIN r = Fields
      PROVE  LET n == [r EXCEPT !.pc = "killed"]
             IN  /\ DOMAIN n = Fields /\ n.pc = "killed" /\ n.victim = r.victim
                 /\ n.ending = r.ending /\ n.later = r.later /\ n.result = r.result
  BY <1>1 DEF Fields
<1>2. \A q \in Woken(w) : q \in Ops /\ At(q, w) /\ req[q].victim \notin procs
  BY DEF Woken
<1>3. DOMAIN req' = Ops /\ \A q \in Ops \ Woken(w) : req'[q] = req[q]
  BY DEF Wake
<1>4. \A q \in Woken(w) : req'[q] = [req[q] EXCEPT !.pc = "killed"]
  BY <1>2 DEF Wake
<1>5. \A q \in Woken(w) : DOMAIN req[q] = Fields
  BY <1>2 DEF ChainInv
<1>6. ASSUME NEW q \in Woken(w)
      PROVE  /\ DOMAIN req'[q] = Fields /\ req'[q].pc = "killed"
             /\ req'[q].victim = req[q].victim /\ req'[q].ending = req[q].ending
             /\ req'[q].later = req[q].later /\ req'[q].result = req[q].result
  <2> DEFINE r == req[q]
  <2>1. DOMAIN r = Fields /\ req'[q] = [r EXCEPT !.pc = "killed"]
    BY <1>4, <1>5
  <2> HIDE DEF r
  <2>2. /\ DOMAIN req'[q] = Fields /\ req'[q].pc = "killed"
        /\ req'[q].victim = r.victim /\ req'[q].ending = r.ending
        /\ req'[q].later = r.later /\ req'[q].result = r.result
    BY <1>1, <2>1
  <2> QED  BY <2>2 DEF r
<1> QED  BY <1>2, <1>3, <1>6

\* The promises are settled together: no process is left, and the restore does not
\* stay behind when a request goes on.
LEMMA WakePr ==
    ASSUME PrInv, NEW w \in {"term", "kill"}, Wake(w), w = "term" => Woken("kill") = {}
    PROVE  PrInv'
<1>1. Woken(w) # {} /\ child' = Nobody /\ UNCHANGED <<last, procs, queue, fell, meddled>>
  BY DEF Wake, hist
<1>2. ChainInv
  BY DEF PrInv
<1> USE WakeEffect
<1>3. Nobody \notin Ops /\ Boot \notin Requests /\ Boot \in Ops /\ Requests \subseteq Ops
  BY OpsAssumption DEF Ops
<1>4. ASSUME NEW q \in Ops
      PROVE  /\ req'[q] = req[q] \/ (At(q, w) /\ req'[q].pc = "killed")
             /\ DOMAIN req'[q] = Fields /\ req'[q].victim = req[q].victim
             /\ req'[q].ending = req[q].ending /\ req'[q].later = req[q].later /\ req'[q].result = req[q].result
  BY <1>2 DEF ChainInv
<1>5. ChainInv'
  BY <1>1, <1>2, <1>3, <1>4 DEF ChainInv, Active, Killing, At, Holder
<1>6. ChildInv'
  BY <1>1, <1>3 DEF ChildInv
<1>7. ServedInv'
  BY <1>1, <1>3, <1>4 DEF PrInv, ServedInv, At
<1>8. ASSUME OrderInv PROVE OrderInv'
  <2>1. procs = {}
    BY <1>1, <1>2, <1>8 DEF OrderInv, Killing, At
  <2>2. child = Nobody
    BY <1>2, <2>1 DEF ChainInv
  <2>3. (Killing(Boot) => req[Boot].victim = Boot)'
    BY <1>3, <1>4, <1>8 DEF OrderInv, Killing, At
  <2>4. ASSUME NEW q \in Requests
        PROVE  ( /\ At(q, "term") /\ At(Boot, "term") => req[q].later /\ req[q].victim = Boot
                 /\ At(q, "kill") => ~At(Boot, "term")
                 /\ At(q, "health") /\ child # q => q \in fell )'
    BY <1>1, <1>3, <1>4, <1>8, <2>2 DEF OrderInv, At
  <2>5. ASSUME NEW q \in Requests, At(q, "killed")' PROVE ~Killing(Boot)'
    <3>1. CASE At(q, "killed")
      BY <1>3, <1>4, <1>8, <3>1 DEF OrderInv, Killing, At
    <3>2. CASE ~At(q, "killed")
      <4>1. At(q, w)
        BY <1>3, <1>4, <2>5, <3>2 DEF At
      <4>2. Killing(Boot) => Boot \in Woken(w)
        BY <1>3, <1>8, <2>1, <4>1 DEF OrderInv, Killing, At, Woken
      <4> QED  BY <1>2, <1>3, <4>2 DEF Killing, At
    <3> QED  BY <3>1, <3>2
  <2> QED  BY <1>1, <2>1, <2>3, <2>4, <2>5 DEF OrderInv
<1> QED  BY <1>1, <1>5, <1>6, <1>7, <1>8 DEF PrInv

\* What an operation does that has come to its end.
LEMMA EndPr ==
    ASSUME PrInv, NEW o \in Ops, NEW v, Answer(o, v), Leave(o), UNCHANGED <<procs, child, fell, meddled>>,
           req[o].pc \in Active,
           v = "ok" /\ child = o /\ o \in Requests => last' = req[o].model,
           child \in Requests \ {o} => last' = last
    PROVE  PrInv'
<1>1. Only(o) /\ DOMAIN req'[o] = Fields /\ req'[o].pc = "done" /\ req'[o].model = req[o].model /\ req'[o].result = v
  BY AnswerEffect DEF PrInv
<1>2. queue' \in Seq(Requests) /\ \A q \in Requests \ {o} : Holder(q) => Holder(q)'
  BY LeaveEffect DEF PrInv
<1>3. ChainInv'
  BY <1>1, <1>2 DEF PrInv, ChainInv, Only, Active, Killing, At, Ops
<1>4. ChildInv'
  BY <1>1 DEF PrInv, ChildInv, Only, Ops
<1>5. ServedInv'
  BY <1>1 DEF PrInv, ServedInv, Only, Ops, At
<1>6. OrderInv => OrderInv'
  BY <1>1 DEF OrderInv, Only, Killing, At, Ops
<1> QED  BY <1>3, <1>4, <1>5, <1>6 DEF PrInv

\* A child is spawned: nobody waits for the end of another one.
LEMMA SpawnPr ==
    ASSUME PrInv, NEW o \in Ops, Spawn(o), UNCHANGED <<last, fell>>,
           o \in Requests => At(o, "killed"),
           o = Boot => At(o, "spawn") /\ ~Settling
    PROVE  PrInv'
<1>1. child = Nobody /\ child' = o /\ procs' = procs \cup {o} /\ UNCHANGED <<last, queue, fell, meddled>>
  BY DEF Spawn
<1>2. /\ Only(o) /\ DOMAIN req'[o] = Fields /\ req'[o].pc = "health" /\ req'[o].model = req[o].model
      /\ req'[o].result = req[o].result
  BY GotoEffect DEF Spawn, PrInv
<1>3. Nobody \notin Ops /\ Boot \notin Requests /\ Boot \in Ops /\ Requests \subseteq Ops
  BY OpsAssumption DEF Ops
<1>4. ASSUME o \in Requests, NEW q \in Requests, q # o PROVE req[q].pc \notin Active
  BY <1>4, OneHolder DEF PrInv, At, Active
<1>5. o \in Requests => Holder(o)
  BY DEF PrInv, ChainInv, At, Active
<1>6. ChainInv'
  BY <1>1, <1>2, <1>3, <1>5 DEF PrInv, ChainInv, Only, Active, Killing, At, Ops, Holder
<1>7. ChildInv'
  <2>1. CASE o = Boot
    BY <1>1, <1>3, <2>1 DEF ChildInv
  <2>2. CASE o \in Requests
    BY <1>1, <1>2, <1>3, <1>4, <2>2 DEF ChildInv, Only, Active
  <2> QED  BY <2>1, <2>2 DEF Ops
<1>8. ServedInv'
  BY <1>1, <1>2, <1>3 DEF PrInv, ServedInv, Only, Ops, At
<1>9. ASSUME OrderInv PROVE OrderInv'
  <2>1. procs = {} /\ procs' = {o}
    BY <1>1, <1>3, <1>9 DEF OrderInv, PrInv, ChainInv
  <2>2. ASSUME NEW q \in Ops PROVE ~Killing(q)'
    <3>1. CASE q = o
      BY <1>2, <3>1 DEF Killing
    <3>2. CASE q # o /\ o = Boot
      BY <1>2, <2>1, <3>2 DEF Settling, Woken, Killing, At, Only
    <3>3. CASE q # o /\ o \in Requests /\ q = Boot
      BY <1>2, <1>9, <3>3 DEF OrderInv, Killing, Only
    <3>4. CASE q # o /\ o \in Requests /\ q \in Requests
      BY <1>2, <1>3, <1>4, <3>4 DEF Killing, Only, Active
    <3> QED  BY <3>1, <3>2, <3>3, <3>4 DEF Ops
  <2>3. ASSUME NEW q \in Requests, At(q, "health")', child' # q PROVE q \in fell'
    <3>1. q # o /\ At(q, "health")
      BY <1>1, <1>2, <1>3, <2>3 DEF Only, At
    <3>2. o = Boot
      BY <1>4, <3>1 DEF At, Active, Ops
    <3> QED  BY <1>1, <1>3, <1>9, <3>1, <3>2 DEF OrderInv
  <2> QED  BY <1>1, <1>3, <2>1, <2>2, <2>3 DEF OrderInv, Killing, At
<1> QED  BY <1>1, <1>6, <1>7, <1>8, <1>9 DEF PrInv

\* What follows a kill.
LEMMA ContinuePr ==
    ASSUME PrInv, NEW o \in Ops, Continue(o)
    PROVE  PrInv'
<1>1. At(o, "killed") /\ UNCHANGED <<last, fell>> /\ req[o].pc \in Active
  BY DEF Continue, At, Active
<1>2. CASE Answer(o, "failed") /\ Leave(o) /\ UNCHANGED <<procs, healthy, child, meddled>>
  BY <1>1, <1>2, EndPr
<1>3. ASSUME ~req[o].ending PROVE o \in Requests
  BY <1>1, <1>3 DEF PrInv, ChainInv, Ops
<1>4. CASE ~req[o].ending /\ Goto(o, "clear") /\ UNCHANGED <<procs, healthy, child, queue, meddled>>
  <2>1. /\ Only(o) /\ DOMAIN req'[o] = Fields /\ req'[o].pc = "clear" /\ req'[o].result = req[o].result
    BY <1>4, GotoEffect DEF PrInv
  <2>2. ChainInv'
    BY <1>1, <1>3, <1>4, <2>1 DEF PrInv, ChainInv, Only, Active, Killing, At, Ops, Holder
  <2>3. ChildInv'
    BY <1>1, <1>3, <1>4, <2>1 DEF PrInv, ChildInv, Only, Ops, At
  <2>4. ServedInv'
    BY <1>1, <1>3, <1>4, <2>1 DEF PrInv, ServedInv, ChildInv, Only, Ops, At
  <2>5. OrderInv => OrderInv'
    BY <1>1, <1>3, <1>4, <2>1 DEF OrderInv, Only, Killing, At, Ops
  <2> QED  BY <1>4, <2>2, <2>3, <2>4, <2>5 DEF PrInv
<1>5. CASE ~req[o].ending /\ Spawn(o)
  BY <1>1, <1>3, <1>5, SpawnPr, OpsAssumption
<1> QED  BY <1>2, <1>4, <1>5 DEF Continue

\* Somebody answers on the port.
LEMMA HealthyPr ==
    ASSUME PrInv, NEW o \in Ops, Healthy(o)
    PROVE  PrInv'
<1>1. At(o, "health") /\ UNCHANGED <<last, procs, child, queue, fell, meddled>>
  BY DEF Healthy, hist
<1>2. /\ Only(o) /\ DOMAIN req'[o] = Fields /\ req'[o].pc = (IF o = Boot THEN "done" ELSE "write")
      /\ req'[o].result = (IF o = Boot THEN "ok" ELSE req[o].result)
  BY AnswerEffect, GotoEffect DEF Healthy, PrInv
<1>3. ChainInv'
  BY <1>1, <1>2 DEF PrInv, ChainInv, Only, Active, Killing, At, Ops, Holder
<1>4. ChildInv'
  BY <1>1, <1>2 DEF PrInv, ChildInv, Only, Ops, At
<1>5. ServedInv'
  BY <1>1, <1>2, OpsAssumption DEF PrInv, ServedInv, Only, Ops, At
<1>6. OrderInv => OrderInv'
  BY <1>1, <1>2 DEF OrderInv, Only, Killing, At, Ops
<1> QED  BY <1>1, <1>3, <1>4, <1>5, <1>6 DEF PrInv

\* kill() begins.  As long as the restore has not killed under a request, the one
\* who begins later knows of it, and nobody is left waiting for a process that
\* has been gone for long.
LEMMA KillPr ==
    ASSUME PrInv, ~Settling, NEW o \in Ops, NEW e, Kill(o, e),
           UNCHANGED <<last, procs, child, queue, fell>>,
           req[o].pc \in {"queued", "health", "spawn"},
           o \in Requests => Holder(o), o = Boot => e = TRUE
    PROVE  PrInv'
<1>1. /\ Only(o) /\ DOMAIN req'[o] = Fields
      /\ req'[o].pc = (IF child = Nobody THEN "killed" ELSE "term")
      /\ req'[o].victim = child /\ req'[o].ending = e
      /\ req'[o].later = (\E q \in Ops : Waiting(q, child))
      /\ req'[o].model = req[o].model /\ req'[o].result = req[o].result
      /\ meddled' = (meddled \/ (o = Boot /\ child # Boot /\ child # Nobody)
                             \/ (o = Boot /\ child # Nobody /\ queue # <<>>))
  BY KillEffect DEF PrInv
<1>2. Nobody \notin Ops /\ Boot \notin Requests /\ Boot \in Ops /\ Requests \subseteq Ops
  BY OpsAssumption DEF Ops
<1>3. ChainInv'
  BY <1>1, <1>2 DEF PrInv, ChainInv, Only, Active, Killing, At, Ops, Holder
<1>4. ChildInv'
  BY <1>1, <1>2 DEF PrInv, ChildInv, Only
<1>5. ServedInv'
  BY <1>1, <1>2 DEF PrInv, ServedInv, Only, At
<1>6. ASSUME OrderInv, ~meddled' PROVE OrderInv'
  <2>1. o = Boot /\ child # Nobody => child = Boot /\ queue = <<>>
    BY <1>1, <1>6
  <2>2. \A q \in Ops : Killing(q) => req[q].victim \in procs
    BY DEF Settling, Woken, Killing, At
  <2>3. procs \subseteq {child} /\ child \in procs \cup {Nobody}
    BY <1>6 DEF OrderInv, PrInv, ChainInv
  <2>4. \A q \in Requests : req[q].pc \in Active => queue # <<>>
    BY DEF PrInv, ChainInv, Holder
  <2>5. (Killing(Boot) => req[Boot].victim = Boot)'
    BY <1>1, <1>2, <1>6, <2>1 DEF OrderInv, Only, Killing
  <2>6. ASSUME NEW q \in Ops, (Killing(q) /\ req[q].victim \notin procs)' PROVE FALSE
    BY <1>1, <1>2, <2>2, <2>3, <2>6 DEF Only, Killing
  <2>7. ASSUME NEW q \in Requests, At(q, "term")', At(Boot, "term")'
        PROVE  req'[q].later /\ req'[q].victim = Boot
    <3>1. CASE q = o
      <4>1. At(Boot, "term") /\ req[Boot].victim = Boot
        BY <1>1, <1>2, <1>6, <2>7, <3>1 DEF OrderInv, Killing, Only, At
      <4>2. child = Boot
        BY <1>2, <2>2, <2>3, <4>1 DEF Killing, At
      <4> QED  BY <1>1, <1>2, <3>1, <4>1, <4>2 DEF Waiting
    <3>2. CASE q # o /\ o = Boot
      BY <1>1, <1>2, <2>1, <2>4, <2>7, <3>2 DEF Only, At, Active
    <3>3. CASE q # o /\ o # Boot
      BY <1>1, <1>2, <1>6, <2>7, <3>3 DEF OrderInv, Only, At
    <3> QED  BY <3>1, <3>2, <3>3
  <2>8. ASSUME NEW q \in Requests, At(q, "kill")', At(Boot, "term")' PROVE FALSE
    <3>1. q # o /\ At(q, "kill")
      BY <1>1, <1>2, <2>8 DEF Only, At
    <3>2. CASE o = Boot
      BY <1>1, <2>1, <2>4, <2>8, <3>1, <3>2 DEF At, Active
    <3>3. CASE o # Boot
      BY <1>1, <1>2, <1>6, <2>8, <3>1, <3>3 DEF OrderInv, Only, At
    <3> QED  BY <3>2, <3>3
  <2>9. ASSUME NEW q \in Requests, At(q, "killed")', Killing(Boot)' PROVE FALSE
    <3>1. q = o /\ child = Nobody
      BY <1>1, <1>2, <2>9 DEF Only, At, Settling
    <3>2. Killing(Boot) /\ req[Boot].victim = Boot
      BY <1>1, <1>2, <1>6, <2>9, <3>1 DEF OrderInv, Only, Killing
    <3> QED  BY <1>2, <2>2, <2>3, <3>1, <3>2
  <2>10. ASSUME NEW q \in Requests, At(q, "health")', child' # q PROVE q \in fell'
    BY <1>1, <1>2, <1>6, <2>10 DEF OrderInv, Only, At
  <2> QED  BY <1>6, <2>3, <2>5, <2>6, <2>7, <2>8, <2>9, <2>10 DEF OrderInv
<1> QED  BY <1>1, <1>3, <1>4, <1>5, <1>6 DEF PrInv

\* The file is truncated and written.
LEMMA WritePr ==
    ASSUME PrInv, NEW o \in Ops, Write(o)
    PROVE  PrInv'
<1>1. /\ req[o].pc \in {"write", "writing"} /\ req[o].pc \in Active
      /\ UNCHANGED <<procs, child, fell, meddled>>
  BY DEF Write, At, Active, hist
<1>2. o \in Requests /\ child \in {o, Nobody, Boot} /\ Nobody \notin Ops /\ Boot \notin Requests
  BY <1>1, OpsAssumption DEF PrInv, ChainInv, ChildInv, Ops
<1>3. CASE Goto(o, "writing") /\ UNCHANGED queue
  <2>1. /\ Only(o) /\ DOMAIN req'[o] = Fields /\ req'[o].pc = "writing" /\ req'[o].result = req[o].result
    BY <1>3, GotoEffect DEF PrInv
  <2>2. ChainInv'
    BY <1>1, <1>2, <1>3, <2>1 DEF PrInv, ChainInv, Only, Active, Killing, At, Ops, Holder
  <2>3. ChildInv'
    BY <1>1, <1>2, <2>1 DEF PrInv, ChildInv, Only, Ops
  <2>4. ServedInv'
    BY <1>1, <1>2, <2>1 DEF PrInv, ServedInv, Only, Ops, At
  <2>5. OrderInv => OrderInv'
    BY <1>1, <1>2, <2>1 DEF OrderInv, Only, Killing, At, Ops
  <2> QED  BY <1>1, <2>2, <2>3, <2>4, <2>5 DEF PrInv
<1>4. CASE last' = req[o].model /\ Answer(o, "ok") /\ Leave(o)
  BY <1>1, <1>2, <1>4, EndPr, Zenon DEF Ops
<1>5. CASE Answer(o, "failed") /\ Leave(o)
  <2>1. child \in Requests \ {o} => last' = last
    BY <1>2 DEF Ops
  <2> QED  BY <1>1, <1>5, <2>1, EndPr
<1> QED  BY <1>3, <1>4, <1>5 DEF Write

LEMMA ClearPr ==
    ASSUME PrInv, NEW o \in Ops, Clear(o)
    PROVE  PrInv'
<1>1. /\ At(o, "clear") /\ req[o].pc \in Active /\ UNCHANGED <<procs, child, fell, meddled>>
      /\ Answer(o, "ok") /\ Leave(o)
  BY DEF Clear, At, Active, hist
<1>2. child \notin Requests
  BY <1>1 DEF PrInv, ChainInv, ChildInv, At, Ops
<1> QED  BY <1>1, <1>2, EndPr

\* The restore at boot.
LEMMA RestoreReadsPr ==
    ASSUME PrInv, RestoreReads
    PROVE  PrInv'
<1>1. At(Boot, "new") /\ UNCHANGED <<last, procs, child, queue, fell, meddled>> /\ Boot \in Ops /\ Boot \notin Requests
  BY OpsAssumption DEF RestoreReads, hist, Ops
<1>2. Only(Boot) /\ DOMAIN req'[Boot] = Fields /\ req'[Boot].pc = "spawn" /\ req'[Boot].result = req[Boot].result
  BY <1>1 DEF RestoreReads, PrInv, ChainInv, Only, Fields
<1>3. ChainInv'
  BY <1>1, <1>2 DEF PrInv, ChainInv, Only, Active, Killing, At, Ops, Holder
<1>4. ChildInv'
  BY <1>1, <1>2 DEF PrInv, ChildInv, Only, Ops
<1>5. ServedInv'
  BY <1>1, <1>2 DEF PrInv, ServedInv, Only, Ops, At
<1>6. OrderInv => OrderInv'
  BY <1>1, <1>2 DEF OrderInv, Only, Killing, At, Ops
<1> QED  BY <1>1, <1>3, <1>4, <1>5, <1>6 DEF PrInv

LEMMA RestoreSpawnsPr ==
    ASSUME PrInv, ~Settling, RestoreSpawns
    PROVE  PrInv'
<1>1. At(Boot, "spawn") /\ UNCHANGED <<last, fell>> /\ Boot \in Ops /\ Boot \notin Requests
  BY OpsAssumption DEF RestoreSpawns, Ops
<1>2. CASE Spawn(Boot)
  BY <1>1, <1>2, SpawnPr
<1>3. CASE Kill(Boot, TRUE) /\ UNCHANGED <<procs, healthy, child, queue>>
  BY <1>1, <1>3, KillPr DEF At
<1> QED  BY <1>2, <1>3 DEF RestoreSpawns

\* Nothing of the processes outlives the container.
LEMMA RebootPr == PrInv /\ Reboot => PrInv'
<1> SUFFICES ASSUME Reboot PROVE PrInv'
  OBVIOUS
<1>1. /\ DOMAIN req' = Ops /\ procs' = {} /\ child' = Nobody /\ queue' = <<>>
      /\ \A o \in Ops : req'[o] \in {New, Gone}
  BY DEF Reboot
<1>2. ASSUME NEW r \in {New, Gone}
      PROVE  DOMAIN r = Fields /\ r.pc \in {"new", "gone"} /\ r.result = "none"
  BY DEF New, Gone, Fields
<1>3. \A o \in Ops : DOMAIN req'[o] = Fields /\ req'[o].pc \in {"new", "gone"} /\ req'[o].result = "none"
  BY <1>1, <1>2
<1>4. ChainInv'
  BY <1>1, <1>3 DEF ChainInv, Active, Killing, At, Ops
<1>5. ChildInv' /\ ServedInv'
  BY <1>1, <1>3, OpsAssumption DEF ChildInv, ServedInv, At, Ops
<1>6. OrderInv'
  BY <1>1, <1>3 DEF OrderInv, Killing, At, Ops
<1> QED  BY <1>4, <1>5, <1>6 DEF PrInv

LEMMA StepsPr ==
    ASSUME PrInv, ~Settling, NEW o \in Ops, Steps(o)
    PROVE  PrInv'
<1>1. CASE Go(o)
  <2>1. Holder(o) /\ At(o, "queued") /\ Kill(o, FALSE) /\ UNCHANGED <<last, procs, child, queue, fell>> /\ o # Boot
    BY <1>1, BootNeverHolds DEF Go, PrInv
  <2> QED  BY <2>1, KillPr DEF At
<1>2. CASE o = Boot /\ RestoreSpawns
  BY <1>2, RestoreSpawnsPr
<1>3. CASE KillHarder(o)
  BY <1>3, KillHarderPr
<1>4. CASE Healthy(o)
  BY <1>4, HealthyPr
<1>5. CASE Unhealthy(o)
  <2>1. At(o, "health") /\ Kill(o, TRUE) /\ UNCHANGED <<last, procs, child, queue, fell>>
    BY <1>5 DEF Unhealthy
  <2>2. o \in Requests => Holder(o)
    BY <2>1 DEF PrInv, ChainInv, At, Active
  <2> QED  BY <2>1, <2>2, KillPr DEF At
<1>6. CASE Write(o)
  BY <1>6, WritePr
<1>7. CASE Clear(o)
  BY <1>7, ClearPr
<1>8. CASE Remove(o)
  BY <1>8, DeletePr
<1> QED  BY <1>1, <1>2, <1>3, <1>4, <1>5, <1>6, <1>7, <1>8 DEF Steps

LEMMA PrNext == PrInv /\ [Next]_vars => PrInv'
<1> SUFFICES ASSUME PrInv, [Next]_vars PROVE PrInv'
  OBVIOUS
<1>1. CASE Microtasks
  <2>1. CASE Wake("kill")
    BY <2>1, WakePr
  <2>2. CASE \E o \in Ops : Continue(o)
    BY <2>2, ContinuePr
  <2>3. CASE Woken("kill") = {} /\ Wake("term")
    BY <2>3, WakePr
  <2> QED  BY <1>1, <2>1, <2>2, <2>3 DEF Microtasks
<1>2. ASSUME ~Settling, NEW o \in Ops, Calls(o) PROVE PrInv'
  BY <1>2, BeginPr, DeletePr DEF Calls, Load, Unload, RestartModel
<1>3. ASSUME ~Settling, NEW o \in Ops, Steps(o) PROVE PrInv'
  BY <1>3, StepsPr
<1>4. ASSUME NEW o \in Ops, Exit(o) \/ Listen(o) PROVE PrInv'
  BY <1>4, ExitPr, PrFrame DEF Listen
<1>5. ASSUME NEW p \in Pulls, PullGoesOn(p) PROVE PrInv'
  BY <1>5, PrFrame DEF PullGoesOn
<1>6. CASE RestoreReads
  BY <1>6, RestoreReadsPr
<1>7. CASE Reboot
  BY <1>7, RebootPr
<1>8. CASE UNCHANGED vars
  BY <1>8, PrFrame DEF vars, hist
<1> QED  BY <1>1, <1>2, <1>3, <1>4, <1>5, <1>6, <1>7, <1>8 DEF Next

\* The processes, the chain of the routes and .last_loaded.json go together, in
\* every state (main.ts, process.ts, state.ts).
THEOREM ProcessesInvariant == Spec => []PrInv
<1> QED  BY PrInit, PrNext, PTL DEF Spec

\* The manager supervises one llama-server, and no other process is left on the
\* port or the GPU, unless the restore has killed under a request (process.ts).
THEOREM OneServerOnly == Spec => []OneServer
<1>1. PrInv => OneServer
  BY DEF PrInv, OrderInv, OneServer
<1> QED  BY <1>1, ProcessesInvariant, PTL

\* A load whose child is gone while it waits for an answer has lost it to the child's
\* own end, or to the restore (main.ts: the mutex of the routes).
THEOREM LoadsLive == Spec => []LoadNotKilled
<1>1. PrInv => LoadNotKilled
  BY DEF PrInv, OrderInv, LoadNotKilled
<1> QED  BY <1>1, ProcessesInvariant, PTL

\* What a crash would bring back is what a load or a restart has brought up (state.ts).
THEOREM RestoredIsServed == Spec => []LastIsServed
<1>1. PrInv => LastIsServed
  BY DEF PrInv, ServedInv, LastIsServed
<1> QED  BY <1>1, ProcessesInvariant, PTL
=============================================================================
