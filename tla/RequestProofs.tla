--------------------------- MODULE RequestProofs ---------------------------
(***************************************************************************)
(* Proofs about Request, for any connections, workers and files, and any   *)
(* setup: whichever server it is, whatever is asked for and whichever file *)
(* changes when.                                                           *)
(***************************************************************************)
EXTENDS Request, FiniteSetTheorems, TLAPS

-----------------------------------------------------------------------------
(* The inductive invariant.                                                *)

PCs == {"idle", "stat", "open", "body", "fork", "wait", "close"}

AnswerType == [status : {"none", "200", "403", "404"}, length : Nat,
               body : Seq(LineType), output : BOOLEAN]

Shapes ==
    /\ setup \in Setups
    /\ disk \in [Files -> FileType]
    /\ changed \in [Files -> 0 .. MaxChanges]
    /\ accepted \subseteq Conns
    /\ wpc \in [Workers -> PCs]
    /\ tmp \in [Workers -> Conns \cup {None}]
    /\ sbuf \in [Conns -> FileType \cup {None}]
    /\ answer \in [Conns -> AnswerType]
    /\ client \in [Conns -> {"header", "body", "closed"}]
    /\ shown \in [Conns -> Nat]
    /\ child \in [Conns -> {"none", "forked", "runs", "ended", "reaped"}]
    /\ holds \in [Conns -> SUBSET accepted]
    /\ crashed \in BOOLEAN

\* A connection that waits, or that a worker has, is open, and it is in one
\* of these places.  The server of src/ has one at a time.
OneHolder ==
    /\ open \subseteq accepted /\ queue \subseteq open \cup {None}
    /\ \A w \in Workers : /\ tmp[w] \in open \cup {None}
                          /\ wpc[w] = "idle" <=> tmp[w] = None
                          /\ tmp[w] # None => tmp[w] \notin queue
    /\ \A v, w \in Workers : tmp[v] = tmp[w] /\ tmp[v] # None => v = w
    /\ None \in queue => setup.schedule = "SFF"
    /\ setup.schedule = "one" =>
           /\ queue = {} /\ open \subseteq {tmp[Main]}
           /\ \A w \in Workers : w # Main => tmp[w] = None

\* A file that has not changed is the one of the setup; only its length and
\* whether it is there change.
DiskIsKnown ==
    \A f \in Files :
        /\ disk[f].mode = setup.disk[f].mode
        /\ disk[f].program = setup.disk[f].program
        /\ disk[f].there => setup.disk[f].there
        /\ changed[f] = 0 => disk[f] = setup.disk[f]

SetupFile(c) == setup.disk[FileOf(c)]
Unchanged(c) == changed[FileOf(c)] = 0

\* What stat has found is what was there.
StatIsKnown(c) ==
    sbuf[c] # None => /\ sbuf[c].there
                      /\ sbuf[c].mode = SetupFile(c).mode
                      /\ SetupFile(c).there
                      /\ Unchanged(c) => sbuf[c] = SetupFile(c)

\* Nobody has begun to answer.
Fresh(c) ==
    /\ answer[c].status = "none" /\ answer[c].body = <<>> /\ ~answer[c].output
    /\ child[c] = "none"

\* What has been done for a connection before a worker is where it is.
Stage(c) ==
    /\ c \notin accepted => Fresh(c) /\ sbuf[c] = None
    /\ c \in queue => Fresh(c) /\ (setup.schedule = "SFF" => sbuf[c] # None)
    /\ c \in accepted \ open => answer[c].status # "none"
    /\ \A w \in Workers : tmp[w] = c =>
          /\ wpc[w] \in {"stat", "open", "fork"} => Fresh(c) \/ crashed
          /\ wpc[w] \in {"open", "fork"} =>
                 sbuf[c] # None /\ sbuf[c].mode # "forbidden"
          /\ wpc[w] = "open" => IsStatic(c)
          /\ wpc[w] = "fork" => ~IsStatic(c)
          /\ wpc[w] = "body" =>
                 /\ answer[c].status = "200" /\ IsStatic(c)
                 /\ Len(answer[c].body) < Len(sbuf[c].lines)
          /\ wpc[w] = "wait" => child[c] # "none"
          /\ wpc[w] = "close" => answer[c].status # "none"

\* What has been written is what the file calls for, as far as it goes.
AnswerIsKnown(c) ==
    /\ answer[c].status = "404" =>
           (Unchanged(c) => ~SetupFile(c).there)
    /\ answer[c].status = "403" =>
           SetupFile(c).there /\ SetupFile(c).mode = "forbidden"
    /\ answer[c].status = "200" =>
           /\ sbuf[c] # None /\ SetupFile(c).mode # "forbidden"
           /\ IsStatic(c) => answer[c].length = Len(sbuf[c].lines)
           /\ ~IsStatic(c) => child[c] # "none" \/ (crashed /\ c \in open)
    /\ child[c] # "none" => answer[c].status = "200" /\ ~IsStatic(c)
    /\ Unchanged(c) =>
           \A k \in 1 .. Len(answer[c].body) :
               /\ k <= Len(SetupFile(c).lines)
               /\ answer[c].body[k] = SetupFile(c).lines[k]
    /\ answer[c].status = "200" /\ IsStatic(c) /\ Unchanged(c) =>
           \/ \E w \in Workers : tmp[w] = c /\ wpc[w] = "body"
           \/ Len(answer[c].body) = Len(SetupFile(c).lines)

IsProgram(c) == SetupFile(c).program /\ SetupFile(c).mode = "ok"

\* A process that has not ended has a copy of the descriptor it writes to.
ChildIsKnown(c) ==
    /\ child[c] \in {"forked", "runs"} => c \in holds[c]
    /\ child[c] \in {"none", "ended", "reaped"} => holds[c] = {}
    /\ child[c] \in {"none", "forked", "runs"} => ~answer[c].output
    /\ child[c] = "runs" => IsProgram(c)
    /\ child[c] \in {"ended", "reaped"} =>
           /\ answer[c].output => IsProgram(c)
           /\ Unchanged(c) /\ IsProgram(c) => answer[c].output

\* A client has printed a prefix of what there is, and has closed at an empty
\* line or at the end.
ClientIsKnown(c) ==
    /\ shown[c] <= Len(BodyOf(c))
    /\ \A k \in 1 .. shown[c] : BodyOf(c)[k] = "text"
    /\ client[c] = "closed" =>
           \/ /\ SeesEnd(c)
              /\ shown[c] < Len(BodyOf(c)) => BodyOf(c)[shown[c] + 1] = "stub"
           \/ /\ answer[c].status = "200" /\ IsStatic(c)
              /\ shown[c] < Len(BodyOf(c)) /\ BodyOf(c)[shown[c] + 1] = "empty"

Known(c) ==
    /\ StatIsKnown(c) /\ Stage(c) /\ AnswerIsKnown(c) /\ ChildIsKnown(c)
    /\ ClientIsKnown(c)

\* The NULL of file_size comes from a file that was not there.
NullHasCause ==
    None \in queue =>
        \E c \in accepted : Unchanged(c) => ~SetupFile(c).there

Inv ==
    /\ Shapes /\ OneHolder /\ DiskIsKnown /\ NullHasCause
    /\ \A c \in Conns : Known(c)

-----------------------------------------------------------------------------
(* What does not depend on the state, or not on all of it.                 *)

LEMMA MainLemma == Main \in Workers
  BY ThreadsAssumption DEF Main

LEMMA SetupLemma ==
    ASSUME setup \in Setups
    PROVE  /\ setup.schedule \in {"FIFO", "SFF", "one"}
           /\ setup.disk \in [Files -> FileType]
           /\ \A c \in Conns : /\ FileOf(c) \in Files
                               /\ IsStatic(c) \in BOOLEAN
                               /\ SetupFile(c) \in FileType
           /\ setup.made \subseteq Conns
  <1>1. setup \in SetupType
    BY SetupsAssumption
  <1>2. /\ setup.schedule \in {"FIFO", "SFF", "one"}
        /\ setup.disk \in [Files -> FileType]
        /\ setup.request \in [Conns -> [file : Files, is_static : BOOLEAN]]
        /\ setup.made \subseteq Conns
    BY <1>1 DEF SetupType
  <1>3. ASSUME NEW c \in Conns
        PROVE  FileOf(c) \in Files /\ IsStatic(c) \in BOOLEAN
    <2>1. setup.request[c] \in [file : Files, is_static : BOOLEAN]
      BY <1>2
    <2> QED BY <2>1 DEF FileOf, IsStatic
  <1> QED BY <1>2, <1>3 DEF SetupFile

\* What depends on setup alone does not change.
LEMMA SetupStays ==
    ASSUME UNCHANGED setup
    PROVE  \A c : /\ FileOf(c)' = FileOf(c) /\ IsStatic(c)' = IsStatic(c)
                  /\ SetupFile(c)' = SetupFile(c)
                  /\ IsProgram(c)' = IsProgram(c)
  BY DEF FileOf, IsStatic, SetupFile, IsProgram

LEMMA SetupNeverChanges == [Next]_vars => UNCHANGED setup
  BY DEF Next, vars, Change, Accept, AcceptAndHandle, AcceptSFF, Handle, Take,
         Stat, OpenFile, SendPage, Fork, Exec, ProgramEnds, Wait, Close,
         ClientStep, ReadHeader, ReadLine, ReadEnd

LEMMA FileLemma ==
    ASSUME NEW f \in FileType
    PROVE  /\ f # None /\ f.there \in BOOLEAN /\ f.lines \in Seq(LineType)
           /\ f.mode \in {"ok", "others", "forbidden"}
           /\ f.program \in BOOLEAN /\ Len(f.lines) \in Nat
  BY NoneAssumption DEF FileType

LEMMA AnswerLemma ==
    ASSUME NEW a \in AnswerType
    PROVE  /\ a.status \in {"none", "200", "403", "404"} /\ a.length \in Nat
           /\ a.body \in Seq(LineType) /\ a.output \in BOOLEAN
           /\ Len(a.body) \in Nat
  BY DEF AnswerType

\* BodyOf and HasHeader of a connection depend on its answer only.
LEMMA BodyStays ==
    ASSUME NEW c, UNCHANGED setup, answer'[c] = answer[c]
    PROVE  HasHeader(c)' = HasHeader(c) /\ BodyOf(c)' = BodyOf(c)
  BY SetupStays DEF HasHeader, BodyOf

LEMMA BodyLemma ==
    ASSUME Shapes, NEW c \in Conns
    PROVE  BodyOf(c) \in Seq(LineType) /\ Len(BodyOf(c)) \in Nat
  <1>1. answer[c] \in AnswerType
    BY DEF Shapes
  <1>2. <<"text">> \in Seq(LineType) /\ <<>> \in Seq(LineType)
    BY DEF LineType
  <1>3. BodyOf(c) \in Seq(LineType)
    BY <1>1, <1>2, AnswerLemma DEF BodyOf
  <1> QED BY <1>3

\* A connection whose own variables are as they were, and whose end is in
\* sight if it was, is known as it was: whatever happens to others and to the
\* files.
LEMMA Bystander ==
    ASSUME NEW c \in Conns, Known(c), ~crashed, UNCHANGED setup,
           Unchanged(c)' => Unchanged(c),
           c \in accepted' <=> c \in accepted,
           c \in queue' <=> c \in queue,
           c \in open' <=> c \in open,
           sbuf'[c] = sbuf[c], answer'[c] = answer[c],
           client'[c] = client[c], shown'[c] = shown[c],
           child'[c] = child[c], holds'[c] = holds[c],
           \A w \in Workers : /\ tmp'[w] = c <=> tmp[w] = c
                              /\ tmp[w] = c => wpc'[w] = wpc[w],
           SeesEnd(c) => SeesEnd(c)'
    PROVE  Known(c)'
  <1>1. /\ FileOf(c)' = FileOf(c) /\ IsStatic(c)' = IsStatic(c)
        /\ SetupFile(c)' = SetupFile(c) /\ IsProgram(c)' = IsProgram(c)
        /\ HasHeader(c)' = HasHeader(c) /\ BodyOf(c)' = BodyOf(c)
    BY SetupStays, BodyStays
  <1>2. StatIsKnown(c)'
    BY <1>1 DEF Known, StatIsKnown
  <1>3. Stage(c)'
    BY <1>1 DEF Known, Stage, Fresh
  <1>4. AnswerIsKnown(c)'
    BY <1>1 DEF Known, AnswerIsKnown
  <1>5. ChildIsKnown(c)'
    BY <1>1 DEF Known, ChildIsKnown
  <1>6. ClientIsKnown(c)'
    BY <1>1 DEF Known, ClientIsKnown
  <1> QED BY <1>2, <1>3, <1>4, <1>5, <1>6 DEF Known

-----------------------------------------------------------------------------
(* The initial states, and the parts of the invariant about all            *)
(* connections.                                                            *)

LEMMA InvInit == Init => Inv
  <1> SUFFICES ASSUME Init PROVE Inv
    OBVIOUS
  <1>1. setup \in Setups
    BY DEF Init
  <1>2. Empty \in AnswerType
    <2>1. <<>> \in Seq(LineType)
      OBVIOUS
    <2> QED BY <2>1 DEF Empty, AnswerType
  <1>3. Shapes
    <2>1. /\ disk \in [Files -> FileType]
          /\ changed \in [Files -> 0 .. MaxChanges]
      BY <1>1, SetupLemma, NoneAssumption DEF Init
    <2>2. /\ answer \in [Conns -> AnswerType]
          /\ sbuf \in [Conns -> FileType \cup {None}]
          /\ holds \in [Conns -> SUBSET accepted]
      BY <1>2 DEF Init
    <2> QED BY <1>1, <2>1, <2>2 DEF Init, Shapes, PCs
  <1>4. OneHolder /\ DiskIsKnown /\ NullHasCause
    BY <1>1, SetupLemma DEF Init, OneHolder, DiskIsKnown, NullHasCause
  <1>5. ASSUME NEW c \in Conns PROVE Known(c)
    <2>1. /\ answer[c].status = "none" /\ answer[c].body = <<>>
          /\ answer[c].output = FALSE
          /\ sbuf[c] = None /\ child[c] = "none" /\ holds[c] = {}
          /\ shown[c] = 0 /\ client[c] = "header" /\ c \notin accepted
          /\ c \notin queue /\ \A w \in Workers : tmp[w] # c
      BY NoneAssumption DEF Init, Empty
    <2>2. BodyOf(c) = <<>>
      BY <2>1 DEF BodyOf, HasHeader
    <2> QED BY <2>1, <2>2 DEF Known, StatIsKnown, Stage, Fresh, AnswerIsKnown,
                              ChildIsKnown, ClientIsKnown
  <1> QED BY <1>3, <1>4, <1>5 DEF Inv

\* request_error, and the first lines of a good answer, write a status to one
\* connection.
LEMMA StatusLemma ==
    ASSUME Shapes, NEW c \in Conns, NEW s \in {"200", "403", "404"},
           answer' = Status(s, c)
    PROVE  /\ answer' \in [Conns -> AnswerType]
           /\ answer'[c].status = s /\ answer'[c].length = answer[c].length
           /\ answer'[c].body = answer[c].body
           /\ answer'[c].output = answer[c].output
           /\ \A d \in Conns \ {c} : answer'[d] = answer[d]
  <1>1. answer \in [Conns -> AnswerType] /\ answer[c] \in AnswerType
    BY DEF Shapes
  <1>2. answer' = [answer EXCEPT ![c] = [answer[c] EXCEPT !.status = s]]
    BY <1>1 DEF Status
  <1>3. [answer[c] EXCEPT !.status = s] \in AnswerType
    BY <1>1 DEF AnswerType
  <1>4. /\ answer' \in [Conns -> AnswerType]
        /\ answer'[c] = [answer[c] EXCEPT !.status = s]
        /\ \A d \in Conns \ {c} : answer'[d] = answer[d]
    BY <1>1, <1>2, <1>3
  <1>5. answer[c] = [status |-> answer[c].status, length |-> answer[c].length,
                     body |-> answer[c].body, output |-> answer[c].output]
    BY <1>1 DEF AnswerType
  <1> QED BY <1>4, <1>5

\* A worker that decides knows the file, and either refuses or goes on.
LEMMA DecideLemma ==
    ASSUME Shapes, NEW c \in Conns, NEW w \in Workers, NEW s,
           Decide(w, c, s)
    PROVE  /\ wpc' \in [Workers -> PCs] /\ answer' \in [Conns -> AnswerType]
           /\ \A v \in Workers \ {w} : wpc'[v] = wpc[v]
           /\ \A d \in Conns \ {c} : answer'[d] = answer[d]
           /\ \/ /\ s.mode = "forbidden" /\ wpc'[w] = "close"
                 /\ answer'[c].status = "403"
                 /\ answer'[c].body = answer[c].body
                 /\ answer'[c].output = answer[c].output
              \/ /\ s.mode # "forbidden"
                 /\ wpc'[w] = IF IsStatic(c) THEN "open" ELSE "fork"
                 /\ answer' = answer
  <1>1. /\ wpc \in [Workers -> PCs] /\ answer \in [Conns -> AnswerType]
    BY DEF Shapes
  <1>2. CASE s.mode = "forbidden"
    <2>1. answer' = Status("403", c) /\ wpc' = [wpc EXCEPT ![w] = "close"]
      BY <1>2 DEF Decide, Goto
    <2>2. /\ wpc' \in [Workers -> PCs] /\ wpc'[w] = "close"
          /\ \A v \in Workers \ {w} : wpc'[v] = wpc[v]
      BY <1>1, <2>1 DEF PCs
    <2> QED BY <1>2, <2>1, <2>2, StatusLemma
  <1>3. CASE s.mode # "forbidden"
    <2>1. /\ wpc' = [wpc EXCEPT ![w] = IF IsStatic(c) THEN "open" ELSE "fork"]
          /\ answer' = answer
      BY <1>3 DEF Decide, Goto
    <2> QED BY <1>1, <1>3, <2>1 DEF PCs
  <1> QED BY <1>2, <1>3

-----------------------------------------------------------------------------
(* The end of a connection.                                                *)

\* A step only accepts, and closes what it does not accept; a process gets the
\* descriptors that are open.
LEMMA Grows ==
    ASSUME Shapes, [Next]_vars
    PROVE  /\ accepted \subseteq accepted'
           /\ open' \cap accepted \subseteq open
           /\ \A d \in Conns : holds'[d] \subseteq holds[d] \cup open
  <1> DEFINE Goal == /\ accepted \subseteq accepted'
                     /\ open' \cap accepted \subseteq open
                     /\ \A d \in Conns : holds'[d] \subseteq holds[d] \cup open
  <1>1. holds \in [Conns -> SUBSET accepted]
    BY DEF Shapes
  <1>2. ASSUME NEW c \in Conns, Accept(c) \/ AcceptSFF(c) PROVE Goal
    BY <1>2 DEF Accept, AcceptSFF, procs
  <1>3. CASE AcceptAndHandle
    BY <1>3 DEF AcceptAndHandle, procs
  <1>4. ASSUME NEW c \in Conns, Exec(c) \/ ProgramEnds(c) PROVE Goal
    BY <1>1, <1>4 DEF Exec, ProgramEnds, conns
  <1>5. ASSUME NEW w \in Workers, Fork(w) PROVE Goal
    BY <1>1, <1>5 DEF Fork, conns
  <1>6. ASSUME NEW w \in Workers, Close(w) PROVE Goal
    BY <1>6 DEF Close, procs
  <1>7. ASSUME NEW w \in Workers, Take(w) PROVE Goal
    BY <1>7 DEF Take, procs
  <1>8. ASSUME NEW w \in Workers,
               Stat(w) \/ OpenFile(w) \/ SendPage(w) \/ Wait(w)
        PROVE  Goal
    BY <1>8 DEF Stat, OpenFile, SendPage, Wait, conns, procs
  <1>9. ASSUME NEW c \in Conns, ClientStep(c) PROVE Goal
    BY <1>9 DEF ClientStep, ReadHeader, ReadLine, ReadEnd, conns, procs
  <1>10. ASSUME NEW f \in Files, Change(f) PROVE Goal
    BY <1>10 DEF Change, conns, procs
  <1>11. CASE UNCHANGED vars
    BY <1>11 DEF vars, conns, procs
  <1> QED BY <1>2, <1>3, <1>4, <1>5, <1>6, <1>7, <1>8, <1>9, <1>10, <1>11
          DEF Next, Handle

LEMMA EndStays ==
    ASSUME Shapes, [Next]_vars
    PROVE  \A c \in Conns : SeesEnd(c) => SeesEnd(c)'
  <1> SUFFICES ASSUME NEW c \in Conns, SeesEnd(c) PROVE SeesEnd(c)'
    OBVIOUS
  <1>1. c \in accepted' /\ c \notin open'
    BY Grows DEF SeesEnd
  <1>2. \A d \in Conns : c \notin holds'[d]
    BY Grows DEF SeesEnd
  <1> QED BY <1>1, <1>2 DEF SeesEnd

\* Nobody has read from a connection that nobody has begun to answer.
LEMMA NotYetRead ==
    ASSUME Inv, NEW c \in Conns, answer[c].status = "none",
           c \notin accepted \ open
    PROVE  BodyOf(c) = <<>> /\ shown[c] = 0 /\ client[c] # "closed"
  <1>1. ~HasHeader(c) /\ BodyOf(c) = <<>>
    BY DEF HasHeader, BodyOf
  <1>2. shown[c] \in Nat /\ shown[c] <= 0
    BY <1>1 DEF Inv, Shapes, Known, ClientIsKnown
  <1>3. client[c] # "closed"
    BY DEF Inv, Known, ClientIsKnown, SeesEnd
  <1> QED BY <1>1, <1>2, <1>3

\* When somebody begins to, its client has everything before it.
LEMMA ReadingStarts ==
    ASSUME Shapes', NEW c \in Conns, shown'[c] = 0, client'[c] # "closed"
    PROVE  ClientIsKnown(c)'
  <1>1. Len(BodyOf(c)') \in Nat
    <2>1. (BodyOf(c) \in Seq(LineType) /\ Len(BodyOf(c)) \in Nat)'
      BY BodyLemma, PTL
    <2> QED BY <2>1
  <1> QED BY <1>1 DEF ClientIsKnown

LEMMA DiskStays ==
    ASSUME DiskIsKnown, UNCHANGED <<setup, fs>> PROVE DiskIsKnown'
  BY DEF DiskIsKnown, fs

LEMMA CauseStays ==
    ASSUME Shapes, NullHasCause, [Next]_vars, UNCHANGED fs,
           None \in queue' => None \in queue
    PROVE  NullHasCause'
  <1>1. accepted \subseteq accepted' /\ UNCHANGED setup
    BY Grows, SetupNeverChanges
  <1> QED BY <1>1, SetupStays DEF NullHasCause, Unchanged, fs

-----------------------------------------------------------------------------
(* Each action keeps the invariant: the connection it is about is known    *)
(* after it, and to the others it is a bystander's step.                   *)

LEMMA ChangeKeeps ==
    ASSUME Inv, Next, ~crashed, NEW f \in Files, Change(f) PROVE Inv'
  <1>1. UNCHANGED <<setup, conns, threads, sbuf, answer, clients, procs,
                    crashed>>
    BY DEF Change
  <1>2. /\ disk \in [Files -> FileType]
        /\ changed \in [Files -> 0 .. MaxChanges]
        /\ MaxChanges \in Nat /\ changed[f] < MaxChanges /\ disk[f].there
    BY NoneAssumption DEF Inv, Shapes, Change
  <1>3. /\ changed' \in [Files -> 0 .. MaxChanges] /\ changed'[f] # 0
        /\ \A g \in Files \ {f} : changed'[g] = changed[g]
    BY <1>2 DEF Change
  <1>4. /\ disk' \in [Files -> FileType]
        /\ disk'[f].mode = disk[f].mode
        /\ disk'[f].program = disk[f].program
        /\ \A g \in Files \ {f} : disk'[g] = disk[g]
    <2>1. /\ disk[f] \in FileType
          /\ disk[f] = [there |-> disk[f].there, lines |-> disk[f].lines,
                        mode |-> disk[f].mode, program |-> disk[f].program]
      BY <1>2 DEF FileType
    <2>2. CASE disk' = [disk EXCEPT ![f].there = FALSE]
      <3>1. disk' = [disk EXCEPT ![f] = [disk[f] EXCEPT !.there = FALSE]]
        BY <2>2
      <3>2. [disk[f] EXCEPT !.there = FALSE] \in FileType
        BY <2>1 DEF FileType
      <3> QED BY <1>2, <2>1, <3>1, <3>2
    <2>3. ASSUME NEW n \in 0 .. 2,
                 disk' = [disk EXCEPT ![f].lines = [k \in 1 .. n |-> "text"]]
          PROVE  /\ disk' \in [Files -> FileType]
                 /\ disk'[f].mode = disk[f].mode
                 /\ disk'[f].program = disk[f].program
                 /\ \A g \in Files \ {f} : disk'[g] = disk[g]
      <3> DEFINE l == [k \in 1 .. n |-> "text"]
      <3>1. l \in Seq(LineType)
        BY DEF LineType
      <3>2. disk' = [disk EXCEPT ![f] = [disk[f] EXCEPT !.lines = l]]
        BY <2>3
      <3>3. [disk[f] EXCEPT !.lines = l] \in FileType
        BY <2>1, <3>1 DEF FileType
      <3> HIDE DEF l
      <3> QED BY <1>2, <2>1, <3>2, <3>3
    <2> QED BY <2>2, <2>3 DEF Change
  <1>5. Shapes'
    BY <1>1, <1>3, <1>4 DEF Inv, Shapes, conns, threads, clients, procs
  <1>6. OneHolder'
    BY <1>1 DEF Inv, OneHolder, conns, threads
  <1>7. DiskIsKnown'
    BY <1>1, <1>2, <1>3, <1>4 DEF Inv, DiskIsKnown
  <1>8. ASSUME NEW c \in Conns PROVE Unchanged(c)' => Unchanged(c)
    BY <1>1, <1>3, SetupLemma, SetupStays DEF Inv, Shapes, Unchanged
  <1>9. NullHasCause'
    BY <1>1, <1>8, SetupStays DEF Inv, Shapes, NullHasCause, conns
  <1>10. ASSUME NEW c \in Conns PROVE Known(c)'
    <2>1. SeesEnd(c) => SeesEnd(c)'
      BY EndStays DEF Inv
    <2> QED BY <1>1, <1>8, <2>1, Bystander
            DEF Inv, conns, threads, clients, procs
  <1> QED BY <1>5, <1>6, <1>7, <1>9, <1>10 DEF Inv

LEMMA AcceptKeeps ==
    ASSUME Inv, Next, ~crashed, NEW c \in Conns, Accept(c) PROVE Inv'
  <1>1. /\ UNCHANGED <<setup, fs, threads, sbuf, answer, clients, procs,
                       crashed>>
        /\ setup.schedule = "FIFO" /\ c \notin accepted
        /\ accepted' = accepted \cup {c} /\ queue' = queue \cup {c}
        /\ open' = open \cup {c}
    BY DEF Accept
  <1>2. Shapes'
    BY <1>1 DEF Inv, Shapes, fs, threads, clients, procs
  <1>3. /\ c \notin open /\ c \notin queue /\ c # None
        /\ \A w \in Workers : tmp[w] # c
    BY <1>1, NoneAssumption DEF Inv, OneHolder
  <1>4. OneHolder'
    BY <1>1, <1>3 DEF Inv, OneHolder, threads
  <1>5. DiskIsKnown' /\ NullHasCause'
    BY <1>1, <1>3, DiskStays, CauseStays DEF Inv
  <1>6. \A d \in Conns : Unchanged(d)' = Unchanged(d)
    BY <1>1, SetupStays DEF Unchanged, fs
  <1>7. ASSUME NEW d \in Conns, d # c PROVE Known(d)'
    <2>1. SeesEnd(d) => SeesEnd(d)'
      BY EndStays DEF Inv
    <2> QED BY <1>1, <1>6, <1>7, <2>1, Bystander
            DEF Inv, threads, clients, procs
  <1>8. Known(c)'
    <2>1. Known(c) /\ Fresh(c) /\ sbuf[c] = None
      BY <1>1 DEF Inv, Known, Stage
    <2>2. ClientIsKnown(c)'
      BY <1>1, <1>2, <2>1, NotYetRead, ReadingStarts DEF Fresh, clients
    <2>3. StatIsKnown(c)' /\ ChildIsKnown(c)'
      BY <1>1, <1>6, <2>1, SetupStays
         DEF Known, StatIsKnown, ChildIsKnown, procs
    <2>4. AnswerIsKnown(c)'
      BY <1>1, <1>3, <1>6, <2>1, SetupStays
         DEF Known, AnswerIsKnown, Fresh, procs, threads
    <2>5. Stage(c)'
      BY <1>1, <1>3, <2>1, SetupStays DEF Known, Stage, Fresh, procs, threads
    <2> QED BY <2>2, <2>3, <2>4, <2>5 DEF Known
  <1> QED BY <1>2, <1>4, <1>5, <1>7, <1>8 DEF Inv

LEMMA AcceptAndHandleKeeps ==
    ASSUME Inv, Next, ~crashed, AcceptAndHandle PROVE Inv'
  <1>1. PICK c \in setup.made \ accepted :
          /\ UNCHANGED <<setup, fs, queue, sbuf, answer, clients, procs,
                         crashed>>
          /\ setup.schedule = "one" /\ wpc[Main] = "idle"
          /\ accepted' = accepted \cup {c} /\ open' = open \cup {c}
          /\ tmp' = [tmp EXCEPT ![Main] = c]
          /\ wpc' = [wpc EXCEPT ![Main] = "stat"]
    BY DEF AcceptAndHandle, Goto
  <1>2. /\ c \in Conns /\ c # None /\ Main \in Workers
        /\ c \notin open /\ c \notin queue /\ c \notin accepted
        /\ \A w \in Workers : tmp[w] # c
        /\ tmp[Main] = None
    BY <1>1, SetupLemma, MainLemma, NoneAssumption DEF Inv, Shapes, OneHolder
  <1>3. /\ wpc' \in [Workers -> PCs] /\ tmp' \in [Workers -> Conns \cup {None}]
        /\ wpc'[Main] = "stat" /\ tmp'[Main] = c
        /\ \A w \in Workers \ {Main} : wpc'[w] = wpc[w] /\ tmp'[w] = tmp[w]
    BY <1>1, <1>2 DEF Inv, Shapes, PCs
  <1>4. Shapes'
    BY <1>1, <1>2, <1>3 DEF Inv, Shapes, fs, clients, procs
  <1>5. OneHolder'
    <2>1. \A w \in Workers : w # Main => tmp[w] = None
      BY <1>1 DEF Inv, OneHolder
    <2>2. queue = {} /\ open = {}
      BY <1>1, <1>2, NoneAssumption DEF Inv, OneHolder, Shapes
    <2>3. \A w \in Workers : /\ tmp'[w] \in open' \cup {None}
                             /\ wpc'[w] = "idle" <=> tmp'[w] = None
      BY <1>1, <1>2, <1>3, <2>1 DEF Inv, OneHolder
    <2>4. /\ \A v, w \in Workers : tmp'[v] = tmp'[w] /\ tmp'[v] # None => v = w
          /\ \A w \in Workers : w # Main => tmp'[w] = None
      BY <1>2, <1>3, <2>1
    <2>5. open' = {c} /\ open' \subseteq accepted'
      BY <1>1, <2>2
    <2> QED BY <1>1, <1>3, <2>2, <2>3, <2>4, <2>5 DEF OneHolder
  <1>6. DiskIsKnown' /\ NullHasCause'
    BY <1>1, DiskStays, CauseStays DEF Inv
  <1>7. \A d \in Conns : Unchanged(d)' = Unchanged(d)
    BY <1>1, SetupStays DEF Unchanged, fs
  <1>8. ASSUME NEW d \in Conns, d # c PROVE Known(d)'
    <2>1. SeesEnd(d) => SeesEnd(d)'
      BY EndStays DEF Inv
    <2>2. \A w \in Workers : /\ tmp'[w] = d <=> tmp[w] = d
                             /\ tmp[w] = d => wpc'[w] = wpc[w]
      BY <1>2, <1>3, <1>8, NoneAssumption
    <2> QED BY <1>1, <1>7, <1>8, <2>1, <2>2, Bystander
            DEF Inv, clients, procs
  <1>9. Known(c)'
    <2>1. Known(c) /\ Fresh(c) /\ sbuf[c] = None
      BY <1>2 DEF Inv, Known, Stage
    <2>2. ClientIsKnown(c)'
      BY <1>1, <1>2, <1>4, <2>1, NotYetRead, ReadingStarts DEF Fresh, clients
    <2>3. StatIsKnown(c)' /\ ChildIsKnown(c)'
      <3>1. StatIsKnown(c)'
        BY <1>1, <2>1 DEF StatIsKnown
      <3>2. /\ child'[c] = child[c] /\ holds'[c] = holds[c]
            /\ answer'[c] = answer[c] /\ Unchanged(c)' = Unchanged(c)
            /\ IsProgram(c)' = IsProgram(c)
        BY <1>1, <1>2, <1>7, SetupStays DEF procs
      <3>3. ChildIsKnown(c)'
        BY <2>1, <3>2 DEF Known, ChildIsKnown
      <3> QED BY <3>1, <3>3
    <2>4. AnswerIsKnown(c)'
      BY <1>1, <1>2, <1>7, <2>1, SetupStays
         DEF Known, AnswerIsKnown, Fresh, procs
    <2>5. Stage(c)'
      BY <1>1, <1>2, <1>3, <2>1, SetupStays DEF Stage, Fresh, procs
    <2> QED BY <2>2, <2>3, <2>4, <2>5 DEF Known
  <1> QED BY <1>4, <1>5, <1>6, <1>8, <1>9 DEF Inv

LEMMA AcceptSFFKeeps ==
    ASSUME Inv, Next, ~crashed, NEW c \in Conns, AcceptSFF(c) PROVE Inv'
  <1> DEFINE f == disk[FileOf(c)]
  <1>1. /\ UNCHANGED <<setup, fs, threads, clients, procs>>
        /\ setup.schedule = "SFF" /\ c \notin accepted
        /\ accepted' = accepted \cup {c} /\ open' = open \cup {c}
        /\ crashed' \in BOOLEAN
    BY DEF AcceptSFF
  <1>2. /\ c \notin open /\ c \notin queue /\ c # None
        /\ \A w \in Workers : tmp[w] # c
    BY <1>1, NoneAssumption DEF Inv, OneHolder
  <1>3. /\ FileOf(c) \in Files /\ f \in FileType /\ f # None
    BY SetupLemma, FileLemma DEF Inv, Shapes
  <1>4. /\ answer' \in [Conns -> AnswerType]
        /\ \A d \in Conns \ {c} : answer'[d] = answer[d]
        /\ sbuf' \in [Conns -> FileType \cup {None}]
        /\ \A d \in Conns \ {c} : sbuf'[d] = sbuf[d]
        /\ answer'[c].body = answer[c].body
        /\ answer'[c].output = answer[c].output
        /\ \/ /\ f.there /\ queue' = queue \cup {c}
              /\ answer' = answer /\ sbuf'[c] = f
           \/ /\ ~f.there /\ queue' = queue \cup {None}
              /\ answer'[c].status = "404" /\ sbuf' = sbuf
    <2>1. CASE f.there
      <3>1. /\ queue' = queue \cup {c} /\ answer' = answer
            /\ sbuf' = [sbuf EXCEPT ![c] = f]
        BY <2>1 DEF AcceptSFF
      <3> QED BY <1>3, <2>1, <3>1 DEF Inv, Shapes
    <2>2. CASE ~f.there
      <3>1. /\ queue' = queue \cup {None} /\ answer' = Status("404", c)
            /\ sbuf' = sbuf
        BY <2>2 DEF AcceptSFF
      <3> QED BY <1>3, <2>2, <3>1, StatusLemma DEF Inv, Shapes
    <2> QED BY <2>1, <2>2
  <1>5. Shapes'
    BY <1>1, <1>4 DEF Inv, Shapes, fs, threads, clients, procs
  <1>6. OneHolder'
    BY <1>1, <1>2, <1>4 DEF Inv, OneHolder, threads
  <1>7. DiskIsKnown'
    BY <1>1, DiskStays DEF Inv
  <1>8. \A d \in Conns : /\ Unchanged(d)' = Unchanged(d)
                         /\ SetupFile(d)' = SetupFile(d)
    BY <1>1, SetupStays DEF Unchanged, fs
  <1>9. /\ f.mode = SetupFile(c).mode
        /\ f.there => SetupFile(c).there
        /\ Unchanged(c) => f = SetupFile(c)
    BY <1>3 DEF Inv, DiskIsKnown, SetupFile, Unchanged
  <1>10. NullHasCause'
    <2>1. CASE f.there
      BY <1>1, <1>2, <1>4, <2>1, CauseStays DEF Inv
    <2>2. CASE ~f.there
      <3>1. Unchanged(c) => ~SetupFile(c).there
        BY <1>9, <2>2
      <3> QED BY <1>1, <1>8, <3>1 DEF NullHasCause
    <2> QED BY <2>1, <2>2
  <1>11. ASSUME NEW d \in Conns, d # c PROVE Known(d)'
    <2>1. SeesEnd(d) => SeesEnd(d)'
      BY EndStays DEF Inv
    <2>2. d \in queue' <=> d \in queue
      BY <1>4, <1>11, NoneAssumption
    <2> QED BY <1>1, <1>4, <1>8, <1>11, <2>1, <2>2, Bystander
            DEF Inv, threads, clients, procs
  <1>12. Known(c)'
    <2>1. Known(c) /\ Fresh(c) /\ sbuf[c] = None
      BY <1>1 DEF Inv, Known, Stage
    <2>2. ClientIsKnown(c)'
      BY <1>1, <1>5, <2>1, NotYetRead, ReadingStarts DEF Fresh, clients
    <2>3. StatIsKnown(c)'
      BY <1>4, <1>8, <1>9, <2>1 DEF StatIsKnown
    <2>4. ChildIsKnown(c)'
      BY <1>1, <1>4, <2>1, SetupStays DEF Known, ChildIsKnown, Fresh, procs
    <2>5. AnswerIsKnown(c)'
      <3>1. /\ answer'[c].status \in {"none", "404"} /\ child'[c] = "none"
            /\ answer'[c].body = <<>>
            /\ answer'[c].status = "404" => ~f.there
        BY <1>1, <1>4, <2>1 DEF Fresh, procs
      <3> QED BY <1>8, <1>9, <3>1 DEF AnswerIsKnown
    <2>6. Stage(c)'
      <3>1. c \in queue' => f.there
        BY <1>2, <1>4
      <3> QED BY <1>1, <1>2, <1>3, <1>4, <2>1, <3>1
              DEF Stage, Fresh, procs, threads
    <2> QED BY <2>2, <2>3, <2>4, <2>5, <2>6 DEF Known
  <1> QED BY <1>5, <1>6, <1>7, <1>10, <1>11, <1>12 DEF Inv

\* The connection a worker serves is open, and nobody else has it.
LEMMA Served ==
    ASSUME Inv, NEW w \in Workers, wpc[w] # "idle"
    PROVE  /\ tmp[w] \in Conns /\ tmp[w] # None /\ tmp[w] \notin queue
           /\ tmp[w] \in open /\ tmp[w] \in accepted /\ ~SeesEnd(tmp[w])
           /\ \A v \in Workers \ {w} : tmp[v] # tmp[w]
  BY DEF Inv, Shapes, OneHolder, SeesEnd

LEMMA HolderStays ==
    ASSUME OneHolder, UNCHANGED <<setup, conns, tmp>>,
           \A v \in Workers : wpc'[v] = "idle" <=> wpc[v] = "idle"
    PROVE  OneHolder'
  BY DEF OneHolder, conns

LEMMA TakeKeeps ==
    ASSUME Inv, Next, ~crashed, NEW w \in Workers, Take(w) PROVE Inv'
  <1>1. PICK c \in queue :
          /\ queue' = queue \ {c} /\ tmp' = [tmp EXCEPT ![w] = c]
          /\ IF c = None
             THEN crashed' = TRUE /\ UNCHANGED <<wpc, answer>>
             ELSE /\ IF setup.schedule = "SFF" THEN Decide(w, c, sbuf[c])
                     ELSE Goto(w, "stat") /\ UNCHANGED answer
                  /\ UNCHANGED crashed
    BY DEF Take
  <1>2. /\ UNCHANGED <<setup, fs, accepted, open, sbuf, clients, procs>>
        /\ wpc[w] = "idle"
    BY DEF Take
  <1>3. /\ tmp \in [Workers -> Conns \cup {None}] /\ tmp[w] = None
        /\ wpc \in [Workers -> PCs] /\ crashed' \in BOOLEAN
        /\ c \in open \cup {None} /\ c \in Conns \cup {None}
        /\ \A v \in Workers : tmp[v] # c \/ c = None
        /\ setup.schedule # "one"
    BY <1>1, <1>2 DEF Inv, Shapes, OneHolder
  <1>4. /\ tmp' \in [Workers -> Conns \cup {None}] /\ tmp'[w] = c
        /\ \A v \in Workers \ {w} : tmp'[v] = tmp[v]
    BY <1>1, <1>3
  <1>5. DiskIsKnown' /\ NullHasCause'
    BY <1>1, <1>2, DiskStays, CauseStays DEF Inv
  <1>6. \A d \in Conns : Unchanged(d)' = Unchanged(d)
    BY <1>2, SetupStays DEF Unchanged, fs
  <1>7. CASE c = None
    <2>1. UNCHANGED <<wpc, answer>>
      BY <1>1, <1>7
    <2>2. Shapes'
      BY <1>2, <1>3, <1>4, <2>1 DEF Inv, Shapes, fs, clients, procs
    <2>3. OneHolder'
      BY <1>1, <1>2, <1>3, <1>4, <1>7, <2>1 DEF Inv, OneHolder
    <2>4. ASSUME NEW d \in Conns PROVE Known(d)'
      <3>1. SeesEnd(d) => SeesEnd(d)'
        BY EndStays DEF Inv
      <3>2. /\ d \in queue' <=> d \in queue
            /\ \A v \in Workers : tmp'[v] = d <=> tmp[v] = d
        BY <1>1, <1>3, <1>4, <1>7, NoneAssumption
      <3> QED BY <1>2, <1>6, <2>1, <3>1, <3>2, Bystander
              DEF Inv, clients, procs
    <2> QED BY <1>5, <2>2, <2>3, <2>4 DEF Inv
  <1>8. CASE c # None
    <2>1. /\ c \in Conns /\ c \in open /\ c \in accepted
          /\ Known(c) /\ Fresh(c)
          /\ setup.schedule = "SFF" => sbuf[c] # None
      BY <1>3, <1>8 DEF Inv, Known, Stage, OneHolder
    <2>2. /\ wpc' \in [Workers -> PCs] /\ answer' \in [Conns -> AnswerType]
          /\ \A v \in Workers \ {w} : wpc'[v] = wpc[v]
          /\ \A d \in Conns \ {c} : answer'[d] = answer[d]
          /\ \/ /\ setup.schedule = "SFF" /\ sbuf[c].mode = "forbidden"
                /\ wpc'[w] = "close" /\ answer'[c].status = "403"
                /\ answer'[c].body = answer[c].body
                /\ answer'[c].output = answer[c].output
             \/ /\ setup.schedule = "SFF" /\ sbuf[c].mode # "forbidden"
                /\ wpc'[w] = IF IsStatic(c) THEN "open" ELSE "fork"
                /\ answer' = answer
             \/ wpc'[w] = "stat" /\ answer' = answer
      <3>1. CASE setup.schedule = "SFF"
        <4>1. Decide(w, c, sbuf[c])
          BY <1>1, <1>8, <3>1
        <4> QED BY <2>1, <3>1, <4>1, DecideLemma DEF Inv
      <3>2. CASE setup.schedule # "SFF"
        <4>1. wpc' = [wpc EXCEPT ![w] = "stat"] /\ answer' = answer
          BY <1>1, <1>8, <3>2 DEF Goto
        <4> QED BY <1>3, <4>1 DEF Inv, Shapes, PCs
      <3> QED BY <3>1, <3>2
    <2>3. Shapes'
      BY <1>2, <1>3, <1>4, <2>2 DEF Inv, Shapes, fs, clients, procs
    <2>4. OneHolder'
      <3>1. \A v \in Workers : /\ tmp'[v] \in open' \cup {None}
                               /\ wpc'[v] = "idle" <=> tmp'[v] = None
                               /\ tmp'[v] # None => tmp'[v] \notin queue'
        <4>1. /\ wpc'[w] # "idle"
              /\ tmp'[w] = c /\ c \in open' /\ c \notin queue'
          BY <1>1, <1>2, <1>4, <2>1, <2>2
        <4> QED BY <1>1, <1>2, <1>4, <1>8, <2>2, <4>1 DEF Inv, OneHolder
      <3>2. \A v, u \in Workers : tmp'[v] = tmp'[u] /\ tmp'[v] # None => v = u
        BY <1>3, <1>4, <1>8 DEF Inv, OneHolder
      <3> QED BY <1>1, <1>2, <1>3, <3>1, <3>2 DEF Inv, OneHolder
    <2>5. ASSUME NEW d \in Conns, d # c PROVE Known(d)'
      <3>1. SeesEnd(d) => SeesEnd(d)'
        BY EndStays DEF Inv
      <3>2. \A v \in Workers : /\ tmp'[v] = d <=> tmp[v] = d
                               /\ tmp[v] = d => wpc'[v] = wpc[v]
        BY <1>3, <1>4, <2>2, <2>5, NoneAssumption
      <3> QED BY <1>1, <1>2, <1>6, <2>2, <2>5, <3>1, <3>2, Bystander
              DEF Inv, clients, procs
    <2>6. Known(c)'
      <3>1. /\ answer'[c].status \in {"none", "403"} /\ answer'[c].body = <<>>
            /\ ~answer'[c].output /\ child'[c] = "none"
            /\ \A v \in Workers : tmp'[v] = c => v = w
            /\ c \notin queue'
        BY <1>1, <1>2, <1>3, <1>4, <1>8, <2>1, <2>2 DEF Fresh, procs
      <3>2. StatIsKnown(c)'
        BY <1>2, <1>6, <2>1, SetupStays DEF Known, StatIsKnown
      <3>3. Stage(c)'
        <4>1. answer'[c].status = "403" <=> wpc'[w] = "close"
          BY <2>1, <2>2 DEF Fresh
        <4>2. wpc'[w] # "close" => Fresh(c)'
          BY <3>1, <4>1 DEF Fresh
        <4>3. wpc'[w] \in {"open", "fork", "close", "stat"}
          BY <2>2
        <4>4. /\ wpc'[w] = "open" => IsStatic(c)'
              /\ wpc'[w] = "fork" => ~IsStatic(c)'
              /\ wpc'[w] \in {"open", "fork"} =>
                     sbuf'[c] # None /\ sbuf'[c].mode # "forbidden"
          BY <1>2, <2>1, <2>2, SetupStays
        <4> QED BY <1>2, <2>1, <3>1, <4>1, <4>2, <4>3, <4>4 DEF Stage
      <3>4. AnswerIsKnown(c)'
        <4>1. answer'[c].status = "403" =>
                  SetupFile(c)'.there /\ SetupFile(c)'.mode = "forbidden"
          BY <1>2, <2>1, <2>2, SetupStays DEF Known, StatIsKnown, Fresh
        <4> QED BY <3>1, <4>1 DEF AnswerIsKnown
      <3>5. ChildIsKnown(c)'
        BY <1>2, <2>1, <3>1 DEF Known, ChildIsKnown, Fresh, procs
      <3>6. ClientIsKnown(c)'
        BY <1>2, <2>1, <2>3, NotYetRead, ReadingStarts DEF Fresh, clients
      <3> QED BY <3>2, <3>3, <3>4, <3>5, <3>6 DEF Known
    <2> QED BY <1>5, <2>3, <2>4, <2>5, <2>6 DEF Inv
  <1> QED BY <1>7, <1>8

LEMMA StatKeeps ==
    ASSUME Inv, Next, ~crashed, NEW w \in Workers, Stat(w) PROVE Inv'
  <1>1. /\ UNCHANGED <<setup, fs, conns, tmp, clients, procs, crashed>>
        /\ wpc[w] = "stat"
    BY DEF Stat
  <1>2. PICK c \in Conns :
          /\ c = tmp[w] /\ c # None /\ c \notin queue /\ c \in open
          /\ c \in accepted /\ \A v \in Workers \ {w} : tmp[v] # c
    BY <1>1, Served
  <1> DEFINE s == disk[FileOf(c)]
  <1>3. /\ Known(c) /\ Fresh(c) /\ s \in FileType /\ s # None
        /\ FileOf(c) \in Files
        /\ wpc \in [Workers -> PCs] /\ sbuf \in [Conns -> FileType \cup {None}]
    BY <1>1, <1>2, SetupLemma, FileLemma DEF Inv, Shapes, Known, Stage
  <1>4. /\ s.mode = SetupFile(c).mode
        /\ s.there => SetupFile(c).there
        /\ Unchanged(c) => s = SetupFile(c)
    BY <1>3 DEF Inv, DiskIsKnown, SetupFile, Unchanged
  <1>5. /\ wpc' \in [Workers -> PCs] /\ answer' \in [Conns -> AnswerType]
        /\ \A v \in Workers \ {w} : wpc'[v] = wpc[v]
        /\ \A d \in Conns \ {c} : answer'[d] = answer[d]
        /\ sbuf' \in [Conns -> FileType \cup {None}]
        /\ \A d \in Conns \ {c} : sbuf'[d] = sbuf[d]
        /\ \/ /\ s.there /\ s.mode = "forbidden" /\ sbuf'[c] = s
              /\ wpc'[w] = "close" /\ answer'[c].status = "403"
              /\ answer'[c].body = answer[c].body
              /\ answer'[c].output = answer[c].output
           \/ /\ s.there /\ s.mode # "forbidden" /\ sbuf'[c] = s
              /\ wpc'[w] = IF IsStatic(c) THEN "open" ELSE "fork"
              /\ answer' = answer
           \/ /\ ~s.there /\ sbuf' = sbuf
              /\ wpc'[w] = "close" /\ answer'[c].status = "404"
              /\ answer'[c].body = answer[c].body
              /\ answer'[c].output = answer[c].output
    <2>1. CASE s.there
      <3>1. sbuf' = [sbuf EXCEPT ![c] = s] /\ Decide(w, c, s)
        BY <1>2, <2>1 DEF Stat
      <3> HIDE DEF s
      <3> QED BY <1>2, <1>3, <2>1, <3>1, DecideLemma DEF Inv
    <2>2. CASE ~s.there
      <3>1. /\ answer' = Status("404", c) /\ sbuf' = sbuf
            /\ wpc' = [wpc EXCEPT ![w] = "close"]
        BY <1>2, <2>2 DEF Stat, Goto
      <3> QED BY <1>2, <1>3, <2>2, <3>1, StatusLemma DEF Inv, PCs
    <2> QED BY <2>1, <2>2
  <1> HIDE DEF s
  <1>6. Shapes'
    BY <1>1, <1>5 DEF Inv, Shapes, fs, conns, clients, procs
  <1>7. OneHolder' /\ DiskIsKnown' /\ NullHasCause'
    <2>1. \A v \in Workers : wpc'[v] = "idle" <=> wpc[v] = "idle"
      BY <1>1, <1>5
    <2> QED BY <1>1, <2>1, HolderStays, DiskStays, CauseStays DEF Inv, conns
  <1>8. \A d \in Conns : Unchanged(d)' = Unchanged(d)
    BY <1>1, SetupStays DEF Unchanged, fs
  <1>9. ASSUME NEW d \in Conns, d # c PROVE Known(d)'
    <2>1. SeesEnd(d) => SeesEnd(d)'
      BY EndStays DEF Inv
    <2>2. \A v \in Workers : /\ tmp'[v] = d <=> tmp[v] = d
                             /\ tmp[v] = d => wpc'[v] = wpc[v]
      BY <1>1, <1>2, <1>5, <1>9
    <2> QED BY <1>1, <1>5, <1>8, <1>9, <2>1, <2>2, Bystander
            DEF Inv, conns, clients, procs
  <1>10. Known(c)'
    <2>1. /\ answer'[c].status \in {"none", "403", "404"}
          /\ answer'[c].body = <<>> /\ ~answer'[c].output
          /\ child'[c] = "none" /\ tmp'[w] = c
          /\ \A v \in Workers : tmp'[v] = c => v = w
          /\ c \notin queue' /\ c \in open' /\ c \in accepted'
      BY <1>1, <1>2, <1>3, <1>5 DEF Fresh, conns, procs
    <2>2. StatIsKnown(c)'
      BY <1>1, <1>3, <1>4, <1>5, <1>8, SetupStays DEF Known, StatIsKnown
    <2>3. Stage(c)'
      <3>1. answer'[c].status # "none" <=> wpc'[w] = "close"
        BY <1>3, <1>5 DEF Fresh
      <3>2. wpc'[w] # "close" => Fresh(c)'
        BY <2>1, <3>1 DEF Fresh
      <3>3. /\ wpc'[w] \in {"open", "fork", "close"}
            /\ wpc'[w] = "open" => IsStatic(c)
            /\ wpc'[w] = "fork" => ~IsStatic(c)
            /\ wpc'[w] \in {"open", "fork"} =>
                   sbuf'[c] # None /\ sbuf'[c].mode # "forbidden"
        BY <1>3, <1>5
      <3> QED BY <1>1, <2>1, <3>1, <3>2, <3>3, SetupStays DEF Stage
    <2>4. AnswerIsKnown(c)'
      <3>1. answer'[c].status = "403" =>
                SetupFile(c)'.there /\ SetupFile(c)'.mode = "forbidden"
        BY <1>1, <1>3, <1>4, <1>5, SetupStays DEF Fresh
      <3>2. answer'[c].status = "404" =>
                (Unchanged(c)' => ~SetupFile(c)'.there)
        BY <1>1, <1>3, <1>4, <1>5, <1>8, SetupStays DEF Fresh
      <3> QED BY <2>1, <3>1, <3>2 DEF AnswerIsKnown
    <2>5. ChildIsKnown(c)'
      BY <1>1, <1>3, <2>1 DEF Known, ChildIsKnown, Fresh, procs
    <2>6. ClientIsKnown(c)'
      BY <1>1, <1>2, <1>3, <1>6, NotYetRead, ReadingStarts DEF Fresh, clients
    <2> QED BY <2>2, <2>3, <2>4, <2>5, <2>6 DEF Known
  <1> QED BY <1>6, <1>7, <1>9, <1>10 DEF Inv

LEMMA OpenFileKeeps ==
    ASSUME Inv, Next, ~crashed, NEW w \in Workers, OpenFile(w) PROVE Inv'
  <1>1. /\ UNCHANGED <<setup, fs, conns, tmp, sbuf, clients, procs>>
        /\ wpc[w] = "open" /\ crashed' \in BOOLEAN
    BY DEF OpenFile, Inv, Shapes
  <1>2. PICK c \in Conns :
          /\ c = tmp[w] /\ c # None /\ c \notin queue /\ c \in open
          /\ c \in accepted /\ \A v \in Workers \ {w} : tmp[v] # c
    BY <1>1, Served
  <1> DEFINE filesize == Len(sbuf[c].lines)
  <1>3. /\ Known(c) /\ Fresh(c) /\ IsStatic(c)
        /\ sbuf[c] # None /\ sbuf[c].mode # "forbidden"
        /\ filesize \in Nat
        /\ wpc \in [Workers -> PCs] /\ answer \in [Conns -> AnswerType]
    BY <1>1, <1>2, FileLemma DEF Inv, Shapes, Known, Stage
  <1>4. CASE UNCHANGED <<answer, wpc>>
    <2>1. Shapes'
      BY <1>1, <1>4 DEF Inv, Shapes, fs, conns, clients, procs
    <2>2. OneHolder' /\ DiskIsKnown' /\ NullHasCause'
      BY <1>1, <1>4, HolderStays, DiskStays, CauseStays DEF Inv, conns
    <2>3. ASSUME NEW d \in Conns PROVE Known(d)'
      <3>1. (SeesEnd(d) => SeesEnd(d)') /\ (Unchanged(d)' => Unchanged(d))
        BY <1>1, EndStays, SetupStays DEF Inv, Unchanged, fs
      <3> QED BY <1>1, <1>4, <3>1, Bystander DEF Inv, conns, clients, procs
    <2> QED BY <2>1, <2>2, <2>3 DEF Inv
  <1>5. CASE /\ answer' = [answer EXCEPT ![c].status = "200",
                                        ![c].length = filesize]
             /\ wpc' = [wpc EXCEPT ![w] = "body"] /\ filesize > 0
    <2>1. /\ answer' \in [Conns -> AnswerType]
          /\ \A d \in Conns \ {c} : answer'[d] = answer[d]
          /\ answer'[c].status = "200" /\ answer'[c].length = filesize
          /\ answer'[c].body = answer[c].body
          /\ answer'[c].output = answer[c].output
      <3> DEFINE a == [status |-> "200", length |-> filesize,
                       body |-> answer[c].body, output |-> answer[c].output]
      <3>1. answer[c] \in AnswerType
        BY <1>2, <1>3
      <3>2. a \in AnswerType
        BY <1>3, <3>1 DEF AnswerType
      <3> HIDE DEF filesize
      <3>3. answer' = [answer EXCEPT ![c] = a]
        <4>1. /\ answer'[c] = [answer[c] EXCEPT !.status = "200",
                                               !.length = filesize]
              /\ \A d \in Conns \ {c} : answer'[d] = answer[d]
          BY <1>2, <1>3, <1>5
        <4>2. answer'[c] = a
          BY <3>1, <4>1 DEF AnswerType
        <4>3. answer' = [d \in Conns |-> answer'[d]]
          BY <1>3, <1>5
        <4> QED BY <1>3, <4>1, <4>2, <4>3
      <3> QED BY <1>2, <1>3, <3>2, <3>3
    <2>2. /\ wpc' \in [Workers -> PCs] /\ wpc'[w] = "body"
          /\ \A v \in Workers \ {w} : wpc'[v] = wpc[v]
      BY <1>3, <1>5 DEF PCs
    <2>3. Shapes'
      BY <1>1, <2>1, <2>2 DEF Inv, Shapes, fs, conns, clients, procs
    <2>4. OneHolder' /\ DiskIsKnown' /\ NullHasCause'
      <3>1. \A v \in Workers : wpc'[v] = "idle" <=> wpc[v] = "idle"
        BY <1>1, <2>2
      <3> QED BY <1>1, <3>1, HolderStays, DiskStays, CauseStays DEF Inv, conns
    <2>5. \A d \in Conns : Unchanged(d)' = Unchanged(d)
      BY <1>1, SetupStays DEF Unchanged, fs
    <2>6. ASSUME NEW d \in Conns, d # c PROVE Known(d)'
      <3>1. SeesEnd(d) => SeesEnd(d)'
        BY EndStays DEF Inv
      <3>2. \A v \in Workers : /\ tmp'[v] = d <=> tmp[v] = d
                               /\ tmp[v] = d => wpc'[v] = wpc[v]
        BY <1>1, <1>2, <2>2, <2>6
      <3> QED BY <1>1, <2>1, <2>5, <2>6, <3>1, <3>2, Bystander
              DEF Inv, conns, clients, procs
    <2>7. Known(c)'
      <3>1. /\ answer'[c].body = <<>> /\ ~answer'[c].output
            /\ child'[c] = "none" /\ tmp'[w] = c
            /\ \A v \in Workers : tmp'[v] = c => v = w
            /\ c \notin queue' /\ c \in open' /\ c \in accepted'
            /\ sbuf'[c] = sbuf[c]
        BY <1>1, <1>2, <1>3, <2>1 DEF Fresh, conns, procs
      <3>2. StatIsKnown(c)'
        BY <1>1, <1>3, <2>5, SetupStays DEF Known, StatIsKnown
      <3>3. Stage(c)'
        <4>1. Len(answer'[c].body) < Len(sbuf'[c].lines)
          BY <1>5, <3>1
        <4> QED BY <1>1, <1>3, <2>1, <2>2, <3>1, <4>1, SetupStays DEF Stage
      <3>4. AnswerIsKnown(c)'
        <4>1. SetupFile(c)'.mode # "forbidden"
          BY <1>1, <1>3, SetupStays DEF Known, StatIsKnown
        <4> QED BY <1>1, <1>3, <2>1, <2>2, <3>1, <4>1, SetupStays
                DEF AnswerIsKnown
      <3>5. ChildIsKnown(c)'
        BY <1>1, <1>3, <3>1 DEF Known, ChildIsKnown, Fresh, procs
      <3>6. ClientIsKnown(c)'
        BY <1>1, <1>2, <1>3, <2>3, NotYetRead, ReadingStarts
           DEF Fresh, clients
      <3> QED BY <3>2, <3>3, <3>4, <3>5, <3>6 DEF Known
    <2> QED BY <2>3, <2>4, <2>6, <2>7 DEF Inv
  <1> QED BY <1>2, <1>4, <1>5 DEF OpenFile, Goto

LEMMA SendPageKeeps ==
    ASSUME Inv, Next, ~crashed, NEW w \in Workers, SendPage(w) PROVE Inv'
  <1>1. /\ UNCHANGED <<setup, fs, conns, tmp, sbuf, clients, procs>>
        /\ wpc[w] = "body" /\ crashed' \in BOOLEAN
    BY DEF SendPage, Inv, Shapes
  <1>2. PICK c \in Conns :
          /\ c = tmp[w] /\ c # None /\ c \notin queue /\ c \in open
          /\ c \in accepted /\ ~SeesEnd(c)
          /\ \A v \in Workers \ {w} : tmp[v] # c
    BY <1>1, Served
  <1> DEFINE lines == disk[FileOf(c)].lines
             body == answer[c].body
             filesize == Len(sbuf[c].lines)
  <1>3. /\ Known(c) /\ answer[c].status = "200" /\ IsStatic(c)
        /\ Len(body) < filesize
        /\ sbuf[c] # None /\ child[c] = "none" /\ ~answer[c].output
    BY <1>1, <1>2 DEF Inv, Known, Stage, AnswerIsKnown, ChildIsKnown
  <1>4. /\ lines \in Seq(LineType) /\ body \in Seq(LineType)
        /\ Len(lines) \in Nat /\ Len(body) \in Nat
        /\ filesize \in Nat /\ answer[c] \in AnswerType
        /\ wpc \in [Workers -> PCs] /\ answer \in [Conns -> AnswerType]
    <2>1. /\ disk[FileOf(c)] \in FileType /\ answer[c] \in AnswerType
          /\ sbuf[c] \in FileType
      BY <1>3, SetupLemma DEF Inv, Shapes
    <2> QED BY <2>1, FileLemma, AnswerLemma DEF Inv, Shapes
  <1>5. Unchanged(c) => /\ lines = SetupFile(c).lines
                        /\ filesize = Len(lines)
    <2>1. FileOf(c) \in Files
      BY SetupLemma DEF Inv, Shapes
    <2> QED BY <1>3, <2>1
            DEF Inv, Known, StatIsKnown, DiskIsKnown, SetupFile, Unchanged
  <1>6. /\ \A d \in Conns : /\ Unchanged(d)' = Unchanged(d)
                            /\ SeesEnd(d) => SeesEnd(d)'
        /\ DiskIsKnown' /\ NullHasCause'
        /\ IsStatic(c)' /\ SetupFile(c)' = SetupFile(c)
        /\ IsProgram(c)' = IsProgram(c)
    BY <1>1, <1>3, EndStays, SetupStays, DiskStays, CauseStays
       DEF Inv, Unchanged, fs, conns
  <1>7. CASE UNCHANGED <<answer, wpc>>
    <2>1. Shapes'
      BY <1>1, <1>7 DEF Inv, Shapes, fs, conns, clients, procs
    <2>2. OneHolder'
      BY <1>1, <1>7, HolderStays DEF Inv
    <2>3. \A d \in Conns : Known(d)'
      BY <1>1, <1>6, <1>7, Bystander DEF Inv, conns, clients, procs
    <2> QED BY <1>6, <2>1, <2>2, <2>3 DEF Inv
  <1>8. ASSUME /\ wpc' = [wpc EXCEPT ![w] = "close"] \/ wpc' = wpc
               /\ answer' \in [Conns -> AnswerType]
               /\ \A d \in Conns \ {c} : answer'[d] = answer[d],
               Known(c)'
        PROVE  Inv'
    <2>1. /\ wpc' \in [Workers -> PCs]
          /\ \A v \in Workers \ {w} : wpc'[v] = wpc[v]
          /\ wpc'[w] # "idle"
      BY <1>1, <1>4, <1>8 DEF PCs
    <2>2. Shapes'
      BY <1>1, <1>8, <2>1 DEF Inv, Shapes, fs, conns, clients, procs
    <2>3. OneHolder'
      BY <1>1, <2>1, HolderStays DEF Inv
    <2>4. ASSUME NEW d \in Conns, d # c PROVE Known(d)'
      <3>1. \A v \in Workers : /\ tmp'[v] = d <=> tmp[v] = d
                               /\ tmp[v] = d => wpc'[v] = wpc[v]
        BY <1>1, <1>2, <2>1, <2>4
      <3> QED BY <1>1, <1>6, <1>8, <2>4, <3>1, Bystander
              DEF Inv, conns, clients, procs
    <2> QED BY <1>6, <1>8, <2>2, <2>3, <2>4 DEF Inv
  \* The first page that is not there any more ends it.
  <1>9. CASE /\ Len(body) + 1 > Len(lines) /\ UNCHANGED answer
             /\ wpc' = [wpc EXCEPT ![w] = "close"]
    <2>1. ~Unchanged(c)
      BY <1>3, <1>4, <1>5, <1>9
    <2>2. /\ wpc'[w] = "close" /\ tmp'[w] = c
          /\ \A v \in Workers : tmp'[v] = c => v = w
          /\ c \notin queue' /\ c \in accepted' /\ c \in open'
      BY <1>1, <1>2, <1>4, <1>9 DEF conns
    <2>3. StatIsKnown(c)' /\ ChildIsKnown(c)'
      BY <1>1, <1>3, <1>6, <1>9 DEF Known, StatIsKnown, ChildIsKnown, procs
    <2>4. Stage(c)'
      BY <1>3, <1>9, <2>2 DEF Stage
    <2>5. AnswerIsKnown(c)'
      BY <1>1, <1>3, <1>6, <1>9, <2>1 DEF Known, AnswerIsKnown, procs
    <2>6. ClientIsKnown(c)'
      BY <1>1, <1>3, <1>6, <1>9, BodyStays DEF Known, ClientIsKnown, clients
    <2>7. Known(c)'
      BY <2>3, <2>4, <2>5, <2>6 DEF Known
    <2> QED BY <1>4, <1>8, <1>9, <2>7
  \* One more page.
  <1>10. CASE /\ Len(body) + 1 <= Len(lines)
              /\ answer' = [answer EXCEPT ![c].body =
                                              Append(@, lines[Len(body) + 1])]
              /\ IF Len(body) + 1 = filesize
                 THEN wpc' = [wpc EXCEPT ![w] = "close"] ELSE UNCHANGED wpc
    <2> DEFINE l == lines[Len(body) + 1]
    <2>1. l \in LineType
      BY <1>4, <1>10
    <2>2. /\ Append(body, l) \in Seq(LineType)
          /\ Len(Append(body, l)) = Len(body) + 1
          /\ \A k \in 1 .. Len(body) : Append(body, l)[k] = body[k]
          /\ Append(body, l)[Len(body) + 1] = l
      BY <1>4, <2>1
    <2>3. /\ answer' \in [Conns -> AnswerType]
          /\ answer'[c].body = Append(body, l)
          /\ answer'[c].status = answer[c].status
          /\ answer'[c].length = answer[c].length
          /\ answer'[c].output = answer[c].output
          /\ \A d \in Conns \ {c} : answer'[d] = answer[d]
      <3> DEFINE a == [answer[c] EXCEPT !.body = Append(body, l)]
      <3>1. answer' = [answer EXCEPT ![c] = a]
        BY <1>4, <1>10
      <3>2. /\ a \in AnswerType /\ a.body = Append(body, l)
            /\ a.status = answer[c].status /\ a.length = answer[c].length
            /\ a.output = answer[c].output
        BY <1>4, <2>2 DEF AnswerType
      <3> HIDE DEF a
      <3> QED BY <1>4, <3>1, <3>2
    <2>4. /\ tmp'[w] = c /\ \A v \in Workers : tmp'[v] = c => v = w
          /\ c \notin queue' /\ c \in accepted' /\ c \in open'
          /\ sbuf'[c] = sbuf[c]
      BY <1>1, <1>2 DEF conns
    <2>5. \/ wpc'[w] = "close" /\ Len(answer'[c].body) = filesize
          \/ wpc'[w] = "body" /\ Len(answer'[c].body) < filesize
      BY <1>1, <1>3, <1>4, <1>10, <2>2, <2>3
    <2>6. StatIsKnown(c)' /\ ChildIsKnown(c)'
      BY <1>1, <1>3, <1>6, <2>3 DEF Known, StatIsKnown, ChildIsKnown, procs
    <2>7. Stage(c)'
      BY <1>3, <1>6, <2>3, <2>4, <2>5 DEF Stage
    <2>8. AnswerIsKnown(c)'
      <3>1. ASSUME Unchanged(c), NEW k \in 1 .. Len(answer'[c].body)
            PROVE  /\ k <= Len(SetupFile(c).lines)
                   /\ answer'[c].body[k] = SetupFile(c).lines[k]
        <4>1. CASE k = Len(body) + 1
          BY <1>5, <1>10, <2>2, <2>3, <3>1, <4>1
        <4>2. CASE k # Len(body) + 1
          <5>1. k \in 1 .. Len(body)
            BY <1>4, <2>2, <2>3, <4>2
          <5> QED BY <1>3, <2>2, <2>3, <3>1, <5>1 DEF Known, AnswerIsKnown
        <4> QED BY <4>1, <4>2
      <3>2. Unchanged(c) => \/ tmp'[w] = c /\ wpc'[w] = "body"
                            \/ Len(answer'[c].body) = Len(SetupFile(c).lines)
        BY <1>5, <2>4, <2>5
      <3>3. /\ answer'[c].status = "200" /\ child'[c] = "none"
            /\ SetupFile(c).mode # "forbidden"
            /\ answer'[c].length = Len(sbuf'[c].lines) /\ sbuf'[c] # None
        BY <1>1, <1>3, <2>3, <2>4 DEF Known, AnswerIsKnown, procs
      <3> QED BY <1>6, <3>1, <3>2, <3>3 DEF AnswerIsKnown
    <2>9. ClientIsKnown(c)'
      <3>1. BodyOf(c) = body /\ BodyOf(c)' = Append(body, l)
        BY <1>3, <1>6, <2>3 DEF BodyOf
      <3>2. /\ shown'[c] = shown[c] /\ client'[c] = client[c]
            /\ shown[c] \in Nat /\ shown[c] <= Len(body)
        BY <1>1, <1>3, <3>1 DEF Inv, Shapes, Known, ClientIsKnown, clients
      <3>3. \A k \in 1 .. shown[c] : Append(body, l)[k] = "text"
        <4>1. \A k \in 1 .. shown[c] : k \in 1 .. Len(body) /\ body[k] = "text"
          BY <1>3, <1>4, <3>1, <3>2 DEF Known, ClientIsKnown
        <4> QED BY <2>2, <4>1
      <3>4. client[c] = "closed" =>
                /\ shown[c] < Len(body)
                /\ Append(body, l)[shown[c] + 1] = "empty"
        <4>1. client[c] = "closed" => /\ shown[c] < Len(body)
                                      /\ body[shown[c] + 1] = "empty"
          BY <1>2, <1>3, <3>1 DEF Known, ClientIsKnown
        <4> QED BY <1>4, <2>2, <3>2, <4>1
      <3> HIDE DEF body, l
      <3> QED BY <1>3, <1>4, <1>6, <2>2, <2>3, <3>1, <3>2, <3>3, <3>4
              DEF ClientIsKnown
    <2>10. Known(c)'
      BY <2>6, <2>7, <2>8, <2>9 DEF Known
    <2>11. wpc' = [wpc EXCEPT ![w] = "close"] \/ wpc' = wpc
      BY <1>10
    <2> QED BY <1>8, <2>3, <2>10, <2>11
  <1>11. \/ UNCHANGED <<answer, wpc>>
         \/ /\ Len(body) + 1 > Len(lines) /\ UNCHANGED answer
            /\ wpc' = [wpc EXCEPT ![w] = "close"]
         \/ /\ Len(body) + 1 <= Len(lines)
            /\ answer' = [answer EXCEPT ![c].body =
                                            Append(@, lines[Len(body) + 1])]
            /\ IF Len(body) + 1 = filesize
               THEN wpc' = [wpc EXCEPT ![w] = "close"] ELSE UNCHANGED wpc
    BY <1>2 DEF SendPage, Goto
  <1> QED BY <1>7, <1>9, <1>10, <1>11

LEMMA ForkKeeps ==
    ASSUME Inv, Next, ~crashed, NEW w \in Workers, Fork(w) PROVE Inv'
  <1>1. /\ UNCHANGED <<setup, fs, conns, tmp, sbuf, clients>>
        /\ wpc[w] = "fork"
    BY DEF Fork
  <1>2. PICK c \in Conns :
          /\ c = tmp[w] /\ c # None /\ c \notin queue /\ c \in open
          /\ c \in accepted /\ ~SeesEnd(c)
          /\ \A v \in Workers \ {w} : tmp[v] # c
    BY <1>1, Served
  <1>3. /\ Known(c) /\ Fresh(c) /\ ~IsStatic(c)
        /\ sbuf[c] # None /\ sbuf[c].mode # "forbidden"
        /\ wpc \in [Workers -> PCs] /\ open \subseteq accepted
    BY <1>1, <1>2 DEF Inv, Shapes, Known, Stage, OneHolder
  <1>4. /\ answer' \in [Conns -> AnswerType]
        /\ answer'[c].status = "200" /\ answer'[c].length = answer[c].length
        /\ answer'[c].body = <<>> /\ ~answer'[c].output
        /\ \A d \in Conns \ {c} : answer'[d] = answer[d]
    <2>1. answer' = Status("200", c)
      BY <1>2 DEF Fork
    <2> QED BY <1>3, <2>1, StatusLemma DEF Inv, Fresh
  <1>5. /\ wpc' \in [Workers -> PCs]
        /\ \A v \in Workers \ {w} : wpc'[v] = wpc[v]
        /\ child' \in [Conns ->
                          {"none", "forked", "runs", "ended", "reaped"}]
        /\ holds' \in [Conns -> SUBSET accepted] /\ crashed' \in BOOLEAN
        /\ \A d \in Conns \ {c} : child'[d] = child[d] /\ holds'[d] = holds[d]
        /\ \/ /\ child'[c] = "forked" /\ holds'[c] = open
              /\ wpc'[w] = "wait"
           \/ /\ child'[c] = child[c] /\ holds'[c] = holds[c]
              /\ wpc'[w] = "fork" /\ crashed' = TRUE
    <2>1. CASE /\ child' = [child EXCEPT ![c] = "forked"]
               /\ holds' = [holds EXCEPT ![c] = open]
               /\ wpc' = [wpc EXCEPT ![w] = "wait"] /\ UNCHANGED crashed
      BY <1>3, <2>1 DEF Inv, Shapes, PCs
    <2>2. CASE crashed' = TRUE /\ UNCHANGED <<child, holds, wpc>>
      BY <1>1, <2>2 DEF Inv, Shapes
    <2> QED BY <1>2, <2>1, <2>2 DEF Fork, Goto
  <1>6. Shapes'
    BY <1>1, <1>4, <1>5 DEF Inv, Shapes, fs, conns, clients
  <1>7. OneHolder' /\ DiskIsKnown' /\ NullHasCause'
    <2>1. \A v \in Workers : wpc'[v] = "idle" <=> wpc[v] = "idle"
      BY <1>1, <1>5
    <2> QED BY <1>1, <2>1, HolderStays, DiskStays, CauseStays DEF Inv, conns
  <1>8. \A d \in Conns : /\ Unchanged(d)' = Unchanged(d)
                         /\ SeesEnd(d) => SeesEnd(d)'
    BY <1>1, SetupStays, EndStays DEF Inv, Unchanged, fs
  <1>9. ASSUME NEW d \in Conns, d # c PROVE Known(d)'
    <2>1. \A v \in Workers : /\ tmp'[v] = d <=> tmp[v] = d
                             /\ tmp[v] = d => wpc'[v] = wpc[v]
      BY <1>1, <1>2, <1>5, <1>9
    <2> QED BY <1>1, <1>4, <1>5, <1>8, <1>9, <2>1, Bystander
            DEF Inv, conns, clients
  <1>10. Known(c)'
    <2>1. /\ tmp'[w] = c /\ \A v \in Workers : tmp'[v] = c => v = w
          /\ c \notin queue' /\ c \in open' /\ c \in accepted'
          /\ sbuf'[c] = sbuf[c]
      BY <1>1, <1>2 DEF conns
    <2>2. StatIsKnown(c)'
      BY <1>1, <1>3, <1>8, SetupStays DEF Known, StatIsKnown
    <2>3. Stage(c)'
      BY <1>1, <1>3, <1>5, <2>1, SetupStays DEF Stage, Fresh
    <2>4. AnswerIsKnown(c)'
      <3>1. /\ SetupFile(c)'.mode # "forbidden" /\ sbuf'[c] # None
            /\ ~IsStatic(c)'
        BY <1>1, <1>3, <2>1, SetupStays DEF Known, StatIsKnown
      <3>2. child'[c] # "none" \/ (crashed' /\ c \in open')
        BY <1>5, <2>1
      <3> QED BY <1>4, <3>1, <3>2 DEF AnswerIsKnown
    <2>5. ChildIsKnown(c)'
      BY <1>2, <1>3, <1>4, <1>5 DEF Known, ChildIsKnown, Fresh
    <2>6. ClientIsKnown(c)'
      BY <1>1, <1>2, <1>3, <1>6, NotYetRead, ReadingStarts DEF Fresh, clients
    <2> QED BY <2>2, <2>3, <2>4, <2>5, <2>6 DEF Known
  <1> QED BY <1>6, <1>7, <1>9, <1>10 DEF Inv

LEMMA ExecKeeps ==
    ASSUME Inv, Next, ~crashed, NEW c \in Conns, Exec(c) PROVE Inv'
  <1> DEFINE f == disk[FileOf(c)]
  <1>1. /\ UNCHANGED <<setup, fs, conns, threads, sbuf, answer, clients,
                       crashed>>
        /\ child[c] = "forked" /\ Known(c)
    BY DEF Exec, Inv
  <1>2. /\ child' \in [Conns ->
                          {"none", "forked", "runs", "ended", "reaped"}]
        /\ holds' \in [Conns -> SUBSET accepted]
        /\ \A d \in Conns \ {c} : child'[d] = child[d] /\ holds'[d] = holds[d]
        /\ \/ /\ f.there /\ f.mode = "ok" /\ f.program
              /\ child'[c] = "runs" /\ holds'[c] = holds[c]
           \/ /\ ~(f.there /\ f.mode = "ok" /\ f.program)
              /\ child'[c] = "ended" /\ holds'[c] = {}
    <2>1. CASE f.there /\ f.mode = "ok" /\ f.program
      <3>1. child' = [child EXCEPT ![c] = "runs"] /\ UNCHANGED holds
        BY <2>1 DEF Exec
      <3> HIDE DEF f
      <3> QED BY <2>1, <3>1 DEF Inv, Shapes
    <2>2. CASE ~(f.there /\ f.mode = "ok" /\ f.program)
      <3>1. /\ child' = [child EXCEPT ![c] = "ended"]
            /\ holds' = [holds EXCEPT ![c] = {}]
        BY <2>2 DEF Exec
      <3> HIDE DEF f
      <3> QED BY <2>2, <3>1 DEF Inv, Shapes
    <2> QED BY <2>1, <2>2
  <1>3. Shapes'
    BY <1>1, <1>2 DEF Inv, Shapes, fs, conns, threads, clients
  <1>4. OneHolder' /\ DiskIsKnown' /\ NullHasCause'
    BY <1>1, HolderStays, DiskStays, CauseStays DEF Inv, conns, threads
  <1>5. \A d \in Conns : /\ Unchanged(d)' = Unchanged(d)
                         /\ SeesEnd(d) => SeesEnd(d)'
    BY <1>1, SetupStays, EndStays DEF Inv, Unchanged, fs
  <1>6. ASSUME NEW d \in Conns, d # c PROVE Known(d)'
    BY <1>1, <1>2, <1>5, <1>6, Bystander DEF Inv, conns, clients, threads
  <1>7. Known(c)'
    <2>1. /\ answer[c].status = "200" /\ ~IsStatic(c) /\ sbuf[c] # None
          /\ SetupFile(c).there
      BY <1>1 DEF Known, AnswerIsKnown, StatIsKnown
    <2>2. /\ f.mode = "ok" /\ f.program <=> IsProgram(c)
          /\ Unchanged(c) => f.there
      <3>1. FileOf(c) \in Files
        BY SetupLemma DEF Inv, Shapes
      <3> QED BY <2>1, <3>1
              DEF Inv, DiskIsKnown, SetupFile, IsProgram, Unchanged
    <2>3. StatIsKnown(c)'
      BY <1>1, <1>5, SetupStays DEF Known, StatIsKnown
    <2>4. Stage(c)'
      BY <1>1, <1>2, SetupStays
         DEF Known, Stage, Fresh, conns, threads
    <2>5. AnswerIsKnown(c)'
      BY <1>1, <1>2, <1>5, SetupStays DEF Known, AnswerIsKnown, threads
    <2>6. ChildIsKnown(c)'
      <3>1. ~answer'[c].output /\ IsProgram(c)' = IsProgram(c)
        BY <1>1, SetupStays DEF Known, ChildIsKnown
      <3> QED BY <1>1, <1>2, <1>5, <2>2, <3>1 DEF Known, ChildIsKnown
    <2>7. ClientIsKnown(c)'
      BY <1>1, <1>5, BodyStays, SetupStays DEF Known, ClientIsKnown, clients
    <2> QED BY <2>3, <2>4, <2>5, <2>6, <2>7 DEF Known
  <1> QED BY <1>3, <1>4, <1>6, <1>7 DEF Inv

LEMMA ProgramEndsKeeps ==
    ASSUME Inv, Next, ~crashed, NEW c \in Conns, ProgramEnds(c) PROVE Inv'
  <1>1. /\ UNCHANGED <<setup, fs, conns, threads, sbuf, clients, crashed>>
        /\ child[c] = "runs" /\ Known(c)
    BY DEF ProgramEnds, Inv
  <1>2. /\ answer \in [Conns -> AnswerType] /\ answer[c] \in AnswerType
        /\ answer[c].status = "200" /\ ~IsStatic(c) /\ sbuf[c] # None
        /\ c \in holds[c] /\ IsProgram(c) /\ ~answer[c].output
    BY <1>1 DEF Inv, Shapes, Known, AnswerIsKnown, ChildIsKnown
  <1>3. /\ answer' \in [Conns -> AnswerType]
        /\ answer'[c].output = TRUE
        /\ answer'[c].status = "200" /\ answer'[c].length = answer[c].length
        /\ answer'[c].body = answer[c].body
        /\ \A d \in Conns \ {c} : answer'[d] = answer[d]
    <2> DEFINE a == [answer[c] EXCEPT !.output = TRUE]
    <2>1. answer' = [answer EXCEPT ![c] = a]
      BY <1>2 DEF ProgramEnds
    <2>2. /\ a \in AnswerType /\ a.output = TRUE
          /\ a.status = answer[c].status /\ a.length = answer[c].length
          /\ a.body = answer[c].body
      BY <1>2 DEF AnswerType
    <2> HIDE DEF a
    <2> QED BY <1>2, <2>1, <2>2
  <1>4. /\ child' \in [Conns ->
                          {"none", "forked", "runs", "ended", "reaped"}]
        /\ holds' \in [Conns -> SUBSET accepted]
        /\ \A d \in Conns \ {c} : child'[d] = child[d] /\ holds'[d] = holds[d]
        /\ child'[c] = "ended" /\ holds'[c] = {}
    BY DEF ProgramEnds, Inv, Shapes
  <1>5. Shapes'
    BY <1>1, <1>3, <1>4 DEF Inv, Shapes, fs, conns, threads, clients
  <1>6. OneHolder' /\ DiskIsKnown' /\ NullHasCause'
    BY <1>1, HolderStays, DiskStays, CauseStays DEF Inv, conns, threads
  <1>7. \A d \in Conns : /\ Unchanged(d)' = Unchanged(d)
                         /\ SeesEnd(d) => SeesEnd(d)'
    BY <1>1, SetupStays, EndStays DEF Inv, Unchanged, fs
  <1>8. ASSUME NEW d \in Conns, d # c PROVE Known(d)'
    BY <1>1, <1>3, <1>4, <1>7, <1>8, Bystander DEF Inv, conns, clients, threads
  <1>9. Known(c)'
    <2>1. StatIsKnown(c)'
      BY <1>1, <1>7, SetupStays DEF Known, StatIsKnown
    <2>2. Stage(c)'
      BY <1>1, <1>2, <1>3, <1>4, SetupStays
         DEF Known, Stage, Fresh, conns, threads
    <2>3. AnswerIsKnown(c)'
      <3>1. /\ SetupFile(c)'.mode # "forbidden" /\ ~IsStatic(c)'
            /\ SetupFile(c)' = SetupFile(c) /\ sbuf'[c] # None
        BY <1>1, <1>2, SetupStays DEF Known, AnswerIsKnown
      <3>2. Unchanged(c) => \A k \in 1 .. Len(answer[c].body) :
                                /\ k <= Len(SetupFile(c).lines)
                                /\ answer[c].body[k] = SetupFile(c).lines[k]
        BY <1>1 DEF Known, AnswerIsKnown
      <3> QED BY <1>3, <1>4, <1>7, <3>1, <3>2 DEF AnswerIsKnown
    <2>4. ChildIsKnown(c)'
      BY <1>1, <1>2, <1>3, <1>4, SetupStays DEF ChildIsKnown
    <2>5. ClientIsKnown(c)'
      <3>1. BodyOf(c) = <<>>
        BY <1>2 DEF BodyOf, HasHeader
      <3>2. shown[c] = 0
        BY <1>1, <3>1 DEF Inv, Shapes, Known, ClientIsKnown
      <3>3. client[c] # "closed"
        BY <1>1, <1>2 DEF Known, ClientIsKnown, SeesEnd
      <3> QED BY <1>1, <1>5, <3>2, <3>3, ReadingStarts DEF clients
    <2> QED BY <2>1, <2>2, <2>3, <2>4, <2>5 DEF Known
  <1> QED BY <1>5, <1>6, <1>8, <1>9 DEF Inv

LEMMA WaitKeeps ==
    ASSUME Inv, Next, ~crashed, NEW w \in Workers, Wait(w) PROVE Inv'
  <1>1. /\ UNCHANGED <<setup, fs, conns, tmp, sbuf, answer, clients, holds,
                       crashed>>
        /\ wpc[w] = "wait"
    BY DEF Wait
  <1>2. PICK c \in Conns : /\ child[c] = "ended"
                           /\ child' = [child EXCEPT ![c] = "reaped"]
    BY DEF Wait
  <1>3. /\ child' \in [Conns ->
                          {"none", "forked", "runs", "ended", "reaped"}]
        /\ child'[c] = "reaped"
        /\ \A d \in Conns \ {c} : child'[d] = child[d]
    BY <1>2 DEF Inv, Shapes
  <1>4. /\ wpc' \in [Workers -> PCs] /\ wpc'[w] = "close"
        /\ \A v \in Workers \ {w} : wpc'[v] = wpc[v]
    BY DEF Wait, Goto, Inv, Shapes, PCs
  <1>5. Shapes'
    BY <1>1, <1>3, <1>4 DEF Inv, Shapes, fs, conns, clients
  <1>6. OneHolder' /\ DiskIsKnown' /\ NullHasCause'
    <2>1. \A v \in Workers : wpc'[v] = "idle" <=> wpc[v] = "idle"
      BY <1>1, <1>4
    <2> QED BY <1>1, <2>1, HolderStays, DiskStays, CauseStays DEF Inv, conns
  <1>7. \A d \in Conns : /\ Unchanged(d)' = Unchanged(d)
                         /\ SeesEnd(d) => SeesEnd(d)'
    BY <1>1, SetupStays, EndStays DEF Inv, Unchanged, fs
  <1>8. ASSUME NEW d \in Conns PROVE Known(d)'
    <2>1. /\ Known(d)
          /\ \/ child'[d] = child[d]
             \/ child[d] = "ended" /\ child'[d] = "reaped"
      BY <1>2, <1>3 DEF Inv
    <2>2. StatIsKnown(d)'
      BY <1>1, <1>7, <2>1, SetupStays DEF Known, StatIsKnown
    <2>3. Stage(d)'
      <3>1. \A v \in Workers : tmp'[v] = d => wpc'[v] = wpc[v] \/ v = w
        BY <1>1, <1>4
      <3>2. tmp[w] = d => answer[d].status # "none"
        BY <1>1, <2>1 DEF Known, Stage, AnswerIsKnown
      <3>3. Fresh(d) => Fresh(d)'
        BY <1>1, <2>1 DEF Fresh
      <3>4. wpc'[w] = "close"
        BY <1>4
      <3> QED BY <1>1, <2>1, <3>1, <3>2, <3>3, <3>4, SetupStays
              DEF Known, Stage, conns
    <2>4. AnswerIsKnown(d)'
      <3>1. /\ child'[d] # "none" <=> child[d] # "none"
            /\ \A v \in Workers : tmp[v] = d /\ wpc[v] = "body" =>
                   tmp'[v] = d /\ wpc'[v] = "body"
        BY <1>1, <1>4, <2>1
      <3> QED BY <1>1, <1>7, <2>1, <3>1, SetupStays DEF Known, AnswerIsKnown
    <2>5. ChildIsKnown(d)'
      BY <1>1, <1>7, <2>1, SetupStays DEF Known, ChildIsKnown
    <2>6. ClientIsKnown(d)'
      BY <1>1, <1>7, <2>1, BodyStays, SetupStays
         DEF Known, ClientIsKnown, clients
    <2> QED BY <2>2, <2>3, <2>4, <2>5, <2>6 DEF Known
  <1> QED BY <1>5, <1>6, <1>8 DEF Inv

LEMMA CloseKeeps ==
    ASSUME Inv, Next, ~crashed, NEW w \in Workers, Close(w) PROVE Inv'
  <1>1. /\ UNCHANGED <<setup, fs, accepted, queue, sbuf, answer, clients,
                       procs, crashed>>
        /\ wpc[w] = "close" /\ open' = open \ {tmp[w]}
    BY DEF Close
  <1>2. PICK c \in Conns :
          /\ c = tmp[w] /\ c # None /\ c \notin queue /\ c \in open
          /\ c \in accepted /\ ~SeesEnd(c)
          /\ \A v \in Workers \ {w} : tmp[v] # c
    BY <1>1, Served
  <1>3. /\ wpc' \in [Workers -> PCs] /\ wpc'[w] = "idle"
        /\ tmp' \in [Workers -> Conns \cup {None}] /\ tmp'[w] = None
        /\ \A v \in Workers \ {w} : wpc'[v] = wpc[v] /\ tmp'[v] = tmp[v]
    BY DEF Close, Goto, Inv, Shapes, PCs
  <1>4. Shapes'
    BY <1>1, <1>3 DEF Inv, Shapes, fs, clients, procs
  <1>5. OneHolder'
    <2>1. setup.schedule = "one" => open' = {}
      BY <1>1, <1>2 DEF Inv, OneHolder
    <2>2. queue \subseteq open' \cup {None}
      BY <1>1, <1>2 DEF Inv, OneHolder
    <2>3. \A v \in Workers : /\ tmp'[v] \in open' \cup {None}
                             /\ wpc'[v] = "idle" <=> tmp'[v] = None
                             /\ tmp'[v] # None => tmp'[v] \notin queue
      BY <1>1, <1>2, <1>3 DEF Inv, OneHolder
    <2>4. /\ \A u, v \in Workers : tmp'[u] = tmp'[v] /\ tmp'[u] # None => u = v
          /\ \A v \in Workers : tmp[v] = None => tmp'[v] = None
      BY <1>3 DEF Inv, OneHolder
    <2> QED BY <1>1, <2>1, <2>2, <2>3, <2>4 DEF Inv, OneHolder
  <1>6. DiskIsKnown' /\ NullHasCause'
    BY <1>1, DiskStays, CauseStays DEF Inv
  <1>7. \A d \in Conns : /\ Unchanged(d)' = Unchanged(d)
                         /\ SeesEnd(d) => SeesEnd(d)'
    BY <1>1, SetupStays, EndStays DEF Inv, Unchanged, fs
  <1>8. ASSUME NEW d \in Conns, d # c PROVE Known(d)'
    <2>1. \A v \in Workers : /\ tmp'[v] = d <=> tmp[v] = d
                             /\ tmp[v] = d => wpc'[v] = wpc[v]
      BY <1>2, <1>3, <1>8, NoneAssumption
    <2>2. d \in open' <=> d \in open
      BY <1>1, <1>2, <1>8
    <2> QED BY <1>1, <1>7, <2>1, <2>2, Bystander DEF Inv, clients, procs
  <1>9. Known(c)'
    <2>1. Known(c) /\ answer[c].status # "none"
      BY <1>1, <1>2 DEF Inv, Known, Stage
    <2>2. /\ \A v \in Workers : tmp'[v] # c
          /\ \A v \in Workers : ~(tmp[v] = c /\ wpc[v] = "body")
      BY <1>1, <1>2, <1>3
    <2>3. StatIsKnown(c)' /\ ChildIsKnown(c)'
      BY <1>1, <1>7, <2>1, SetupStays
         DEF Known, StatIsKnown, ChildIsKnown, procs
    <2>4. Stage(c)'
      BY <1>1, <1>2, <2>1, <2>2 DEF Stage
    <2>5. AnswerIsKnown(c)'
      BY <1>1, <1>7, <2>1, <2>2, SetupStays DEF Known, AnswerIsKnown, procs
    <2>6. ClientIsKnown(c)'
      BY <1>1, <1>2, <2>1, BodyStays, SetupStays
         DEF Known, ClientIsKnown, clients
    <2> QED BY <2>1, <2>3, <2>4, <2>5, <2>6 DEF Known
  <1> QED BY <1>4, <1>5, <1>6, <1>8, <1>9 DEF Inv

LEMMA ClientStepKeeps ==
    ASSUME Inv, Next, ~crashed, NEW c \in Conns, ClientStep(c) PROVE Inv'
  <1>1. UNCHANGED <<setup, fs, conns, threads, sbuf, answer, procs, crashed>>
    BY DEF ClientStep, ReadHeader, ReadLine, ReadEnd
  <1>2. /\ Known(c) /\ BodyOf(c) \in Seq(LineType) /\ Len(BodyOf(c)) \in Nat
        /\ shown[c] \in Nat
    BY BodyLemma DEF Inv, Shapes
  <1>3. /\ client' \in [Conns -> {"header", "body", "closed"}]
        /\ shown' \in [Conns -> Nat]
        /\ \A d \in Conns \ {c} : client'[d] = client[d] /\ shown'[d] = shown[d]
        /\ \/ client'[c] = "body" /\ shown'[c] = shown[c]
           \/ /\ shown[c] < Len(BodyOf(c)) /\ client'[c] = client[c]
              /\ client[c] = "body" /\ shown'[c] = shown[c] + 1
              /\ BodyOf(c)[shown[c] + 1] = "text"
           \/ /\ shown[c] < Len(BodyOf(c)) /\ client'[c] = "closed"
              /\ shown'[c] = shown[c] /\ BodyOf(c)[shown[c] + 1] = "empty"
           \/ /\ client'[c] = "closed" /\ SeesEnd(c)
              /\ shown'[c] = shown[c]
              /\ shown[c] < Len(BodyOf(c)) => BodyOf(c)[shown[c] + 1] = "stub"
    <2>1. CASE ReadHeader(c)
      BY <2>1 DEF ReadHeader, Inv, Shapes
    <2>2. CASE ReadLine(c)
      <3>1. /\ client[c] = "body" /\ shown[c] < Len(BodyOf(c))
            /\ BodyOf(c)[shown[c] + 1] # "stub"
        BY <2>2 DEF ReadLine
      <3>2. BodyOf(c)[shown[c] + 1] \in LineType
        BY <1>2, <3>1
      <3>3. CASE BodyOf(c)[shown[c] + 1] = "empty"
        BY <2>2, <3>1, <3>3 DEF ReadLine, Inv, Shapes
      <3>4. CASE BodyOf(c)[shown[c] + 1] = "text"
        <4>1. shown' = [shown EXCEPT ![c] = @ + 1] /\ UNCHANGED client
          BY <2>2, <3>4 DEF ReadLine
        <4> QED BY <1>2, <3>1, <3>4, <4>1 DEF Inv, Shapes
      <3> QED BY <3>1, <3>2, <3>3, <3>4 DEF LineType
    <2>3. CASE ReadEnd(c)
      BY <2>3 DEF ReadEnd, Inv, Shapes
    <2> QED BY <2>1, <2>2, <2>3 DEF ClientStep
  <1>4. Shapes'
    BY <1>1, <1>3 DEF Inv, Shapes, fs, conns, threads, procs
  <1>5. OneHolder' /\ DiskIsKnown' /\ NullHasCause'
    BY <1>1, HolderStays, DiskStays, CauseStays DEF Inv, conns, threads
  <1>6. \A d \in Conns : /\ Unchanged(d)' = Unchanged(d)
                         /\ SeesEnd(d) => SeesEnd(d)'
    BY <1>1, SetupStays, EndStays DEF Inv, Unchanged, fs
  <1>7. ASSUME NEW d \in Conns, d # c PROVE Known(d)'
    BY <1>1, <1>3, <1>6, <1>7, Bystander DEF Inv, conns, procs, threads
  <1>8. Known(c)'
    <2>1. BodyOf(c)' = BodyOf(c) /\ IsStatic(c)' = IsStatic(c)
      BY <1>1, BodyStays, SetupStays
    <2>2. StatIsKnown(c)' /\ ChildIsKnown(c)'
      BY <1>1, <1>2, <1>6, SetupStays
         DEF Known, StatIsKnown, ChildIsKnown, procs
    <2>3. Stage(c)'
      BY <1>1, <1>2, SetupStays
         DEF Known, Stage, Fresh, conns, threads, procs
    <2>4. AnswerIsKnown(c)'
      BY <1>1, <1>2, <1>6, SetupStays
         DEF Known, AnswerIsKnown, conns, threads, procs
    <2>5. ClientIsKnown(c)'
      <3>1. /\ shown[c] <= Len(BodyOf(c))
            /\ \A k \in 1 .. shown[c] : BodyOf(c)[k] = "text"
        BY <1>2 DEF Known, ClientIsKnown
      <3>2. /\ shown'[c] <= Len(BodyOf(c))
            /\ \A k \in 1 .. shown'[c] : BodyOf(c)[k] = "text"
        BY <1>2, <1>3, <3>1
      <3>3. ASSUME shown[c] < Len(BodyOf(c)), BodyOf(c)[shown[c] + 1] = "empty"
            PROVE  answer[c].status = "200" /\ IsStatic(c)
        <4>1. CASE BodyOf(c) = <<"text">>
          BY <1>2, <3>3, <4>1
        <4>2. CASE BodyOf(c) = <<>>
          BY <1>2, <3>3, <4>2
        <4> QED BY <4>1, <4>2 DEF BodyOf
      <3> QED BY <1>1, <1>3, <1>6, <2>1, <3>2, <3>3 DEF ClientIsKnown
    <2> QED BY <2>2, <2>3, <2>4, <2>5 DEF Known
  <1> QED BY <1>4, <1>5, <1>7, <1>8 DEF Inv

LEMMA InvStep == Inv /\ [Next]_vars => Inv'
  <1> SUFFICES ASSUME Inv, [Next]_vars PROVE Inv'
    OBVIOUS
  <1>1. CASE UNCHANGED vars
    <2>1. Shapes'
      BY <1>1 DEF Inv, Shapes, vars, fs, conns, threads, clients, procs
    <2>2. OneHolder' /\ DiskIsKnown' /\ NullHasCause'
      BY <1>1, HolderStays, DiskStays, CauseStays
         DEF Inv, vars, conns, threads
    <2>3. UNCHANGED <<setup, changed, accepted, queue, open, wpc, tmp, sbuf,
                      answer, client, shown, child, holds, crashed>>
      BY <1>1 DEF vars, fs, conns, threads, clients, procs
    <2>4. ASSUME NEW c \in Conns PROVE Known(c)'
      <3>1. /\ FileOf(c)' = FileOf(c) /\ IsStatic(c)' = IsStatic(c)
            /\ SetupFile(c)' = SetupFile(c) /\ IsProgram(c)' = IsProgram(c)
            /\ BodyOf(c)' = BodyOf(c) /\ SeesEnd(c)' = SeesEnd(c)
            /\ Unchanged(c)' = Unchanged(c)
        BY <2>3, SetupStays, BodyStays DEF SeesEnd, Unchanged
      <3>2. Known(c)
        BY DEF Inv
      <3>3. StatIsKnown(c)' /\ ChildIsKnown(c)'
        BY <2>3, <3>1, <3>2 DEF Known, StatIsKnown, ChildIsKnown
      <3>4. Stage(c)' /\ AnswerIsKnown(c)'
        BY <2>3, <3>1, <3>2 DEF Known, Stage, Fresh, AnswerIsKnown
      <3>5. ClientIsKnown(c)'
        BY <2>3, <3>1, <3>2 DEF Known, ClientIsKnown
      <3> QED BY <3>3, <3>4, <3>5 DEF Known
    <2> QED BY <2>1, <2>2, <2>4 DEF Inv
  <1>2. CASE Next
    <2>1. ~crashed
      BY <1>2 DEF Next
    <2>2. ASSUME NEW f \in Files, Change(f) PROVE Inv'
      BY <1>2, <2>1, <2>2, ChangeKeeps
    <2>3. ASSUME NEW c \in Conns,
                 \/ Accept(c) \/ AcceptSFF(c) \/ Exec(c) \/ ProgramEnds(c)
                 \/ ClientStep(c)
          PROVE  Inv'
      BY <1>2, <2>1, <2>3, AcceptKeeps, AcceptSFFKeeps, ExecKeeps,
         ProgramEndsKeeps, ClientStepKeeps
    <2>4. CASE AcceptAndHandle
      BY <1>2, <2>1, <2>4, AcceptAndHandleKeeps
    <2>5. ASSUME NEW w \in Workers, Handle(w) PROVE Inv'
      BY <1>2, <2>1, <2>5, TakeKeeps, StatKeeps, OpenFileKeeps, SendPageKeeps,
         ForkKeeps, WaitKeeps, CloseKeeps DEF Handle
    <2> QED BY <1>2, <2>2, <2>3, <2>4, <2>5 DEF Next
  <1> QED BY <1>1, <1>2

LEMMA Invariance == Spec => []Inv
  BY InvInit, InvStep, PTL DEF Spec

-----------------------------------------------------------------------------
(* The properties.                                                         *)

\* Every variable has its type in every reachable state, and a worker serves a
\* connection it has open.
THEOREM TypeCorrect == Spec => []TypeOK
  <1>1. Inv => TypeOK
    <2> SUFFICES ASSUME Inv PROVE TypeOK
      OBVIOUS
    <2>1. /\ setup \in Setups /\ disk \in [Files -> FileType]
          /\ changed \in [Files -> 0 .. MaxChanges]
          /\ accepted \subseteq Conns /\ crashed \in BOOLEAN
      BY DEF Inv, Shapes
    <2>2. open \subseteq accepted /\ queue \subseteq open \cup {None}
      BY DEF Inv, OneHolder
    <2>3. ASSUME NEW w \in Workers
          PROVE  /\ wpc[w] \in {"idle", "stat", "open", "body", "fork",
                                "wait", "close"}
                 /\ tmp[w] \in open \cup {None}
                 /\ wpc[w] # "idle" => tmp[w] # None
      BY DEF Inv, Shapes, OneHolder, PCs
    <2>4. ASSUME NEW c \in Conns
          PROVE  /\ sbuf[c] \in FileType \cup {None}
                 /\ answer[c] \in [status : {"none", "200", "403", "404"},
                                   length : Nat, body : Seq(LineType),
                                   output : BOOLEAN]
                 /\ client[c] \in {"header", "body", "closed"}
                 /\ shown[c] \in 0 .. Len(BodyOf(c))
                 /\ child[c] \in {"none", "forked", "runs", "ended", "reaped"}
                 /\ holds[c] \subseteq accepted
      <3>1. shown[c] \in 0 .. Len(BodyOf(c))
        BY BodyLemma DEF Inv, Shapes, Known, ClientIsKnown
      <3> QED BY <3>1 DEF Inv, Shapes, AnswerType
    <2> QED BY <2>1, <2>2, <2>3, <2>4 DEF TypeOK
  <1> QED BY <1>1, Invariance, PTL

\* The first line that is not printed as it is ends what is printed.
LEMMA PrintableLemma ==
    ASSUME NEW lines \in Seq(LineType), NEW n \in Nat, n <= Len(lines),
           \A k \in 1 .. n : lines[k] = "text",
           n < Len(lines) => lines[n + 1] # "text"
    PROVE  Printable(lines) = n
  <1> DEFINE stops == {k \in 1 .. Len(lines) : lines[k] # "text"}
  <1>1. Len(lines) \in Nat
    OBVIOUS
  <1>2. CASE n = Len(lines)
    <2>1. stops = {}
      BY <1>2
    <2> QED BY <1>2, <2>1 DEF Printable
  <1>3. CASE n < Len(lines)
    <2>1. n + 1 \in stops
      BY <1>1, <1>3
    <2>2. \A k \in stops : n + 1 <= k
      BY <1>1
    <2>3. \A m \in stops : (\A k \in stops : m <= k) => m = n + 1
      BY <1>1, <2>1, <2>2
    <2> DEFINE first == CHOOSE m \in stops : \A k \in stops : m <= k
    <2>4. first \in stops /\ \A k \in stops : first <= k
      BY <2>1, <2>2
    <2>5. first = n + 1
      BY <2>3, <2>4
    <2>6. Printable(lines) = first - 1
      BY <2>1 DEF Printable
    <2> HIDE DEF first
    <2> QED BY <2>5, <2>6
  <1> QED BY <1>1, <1>2, <1>3

\* A client that has closed its connection has got what its request calls for,
\* although another worker may have reaped its program, another program may
\* have held its connection open, and other files may have changed.
THEOREM AnswersAreWhole == Spec => []AnswerIsWhole
  <1>1. Inv => AnswerIsWhole
    <2> SUFFICES ASSUME Inv, NEW c \in Conns, client[c] = "closed", Unchanged(c)
                 PROVE  LET a == answer[c]  f == SetupFile(c) IN
                        CASE ~f.there -> a.status = "404" /\ shown[c] = 1
                          [] f.there /\ f.mode = "forbidden" ->
                                 a.status = "403" /\ shown[c] = 1
                          [] OTHER ->
                                 /\ a.status = "200"
                                 /\ IF IsStatic(c)
                                    THEN /\ a.length = Len(f.lines)
                                         /\ shown[c] = Printable(f.lines)
                                    ELSE shown[c] =
                                             IF f.program /\ f.mode = "ok"
                                             THEN 1 ELSE 0
      BY DEF AnswerIsWhole, Unchanged, SetupFile
    <2> DEFINE f == SetupFile(c)
               body == answer[c].body
    <2>1. /\ Known(c) /\ f \in FileType /\ answer[c] \in AnswerType
          /\ f.there \in BOOLEAN /\ f.lines \in Seq(LineType)
          /\ Len(f.lines) \in Nat
          /\ body \in Seq(LineType) /\ Len(body) \in Nat
          /\ answer[c].status \in {"none", "200", "403", "404"}
          /\ shown[c] \in Nat /\ shown[c] <= Len(BodyOf(c))
          /\ \A k \in 1 .. shown[c] : BodyOf(c)[k] = "text"
      <3>1. /\ Known(c) /\ f \in FileType /\ answer[c] \in AnswerType
            /\ shown[c] \in Nat
        BY SetupLemma DEF Inv, Shapes
      <3> QED BY <3>1, FileLemma, AnswerLemma DEF Known, ClientIsKnown
    <2>2. /\ answer[c].status = "404" => ~f.there
          /\ answer[c].status = "403" => f.there /\ f.mode = "forbidden"
          /\ answer[c].status = "200" =>
                 f.there /\ f.mode # "forbidden" /\ sbuf[c] = f
      BY <2>1 DEF Known, AnswerIsKnown, StatIsKnown
    \* Closed at the end of the connection.
    <2>3. ASSUME SeesEnd(c),
                 shown[c] < Len(BodyOf(c)) => BodyOf(c)[shown[c] + 1] = "stub"
          PROVE  /\ ~f.there => answer[c].status = "404" /\ shown[c] = 1
                 /\ f.there /\ f.mode = "forbidden" =>
                        answer[c].status = "403" /\ shown[c] = 1
                 /\ f.there /\ f.mode # "forbidden" =>
                        /\ answer[c].status = "200"
                        /\ IsStatic(c) =>
                               /\ answer[c].length = Len(f.lines)
                               /\ shown[c] = Printable(f.lines)
                        /\ ~IsStatic(c) =>
                               shown[c] = IF f.program /\ f.mode = "ok"
                                          THEN 1 ELSE 0
      <3>1. /\ answer[c].status # "none" /\ c \notin open /\ c \notin holds[c]
            /\ \A w \in Workers : tmp[w] # c
        BY <2>1, <2>3, NoneAssumption
           DEF Known, Stage, SeesEnd, Inv, OneHolder
      <3>2. BodyOf(c) = <<"text">> => shown[c] = 1
        <4> SUFFICES ASSUME BodyOf(c) = <<"text">> PROVE shown[c] = 1
          OBVIOUS
        <4>1. Len(BodyOf(c)) = 1 /\ BodyOf(c)[1] = "text"
          OBVIOUS
        <4>2. ~(shown[c] < 1)
          BY <2>1, <2>3, <4>1
        <4> QED BY <2>1, <4>1, <4>2
      <3>3. answer[c].status \in {"403", "404"} => shown[c] = 1
        BY <3>2 DEF BodyOf, HasHeader
      <3>4. ASSUME answer[c].status = "200", IsStatic(c)
            PROVE  /\ answer[c].length = Len(f.lines)
                   /\ shown[c] = Printable(f.lines)
        <4>1. answer[c].length = Len(f.lines) /\ Len(body) = Len(f.lines)
          BY <2>1, <2>2, <3>1, <3>4 DEF Known, AnswerIsKnown
        <4>2. \A k \in 1 .. Len(body) : body[k] = f.lines[k]
          BY <2>1 DEF Known, AnswerIsKnown
        <4>3. BodyOf(c) = body
          BY <3>4 DEF BodyOf
        <4>4. /\ shown[c] <= Len(f.lines)
              /\ \A k \in 1 .. shown[c] : f.lines[k] = "text"
          BY <2>1, <4>1, <4>2, <4>3
        <4>5. shown[c] < Len(f.lines) => f.lines[shown[c] + 1] # "text"
          BY <2>1, <2>3, <4>1, <4>2, <4>3
        <4> HIDE DEF f, body
        <4> QED BY <2>1, <4>1, <4>4, <4>5, PrintableLemma
      <3>5. ASSUME answer[c].status = "200", ~IsStatic(c)
            PROVE  shown[c] = IF f.program /\ f.mode = "ok" THEN 1 ELSE 0
        <4>1. child[c] \in {"ended", "reaped"}
          BY <2>1, <3>1, <3>5
             DEF Known, AnswerIsKnown, ChildIsKnown, Inv, Shapes
        <4>2. answer[c].output <=> IsProgram(c)
          BY <2>1, <4>1 DEF Known, ChildIsKnown
        <4>3. CASE IsProgram(c)
          <5>1. BodyOf(c) = <<"text">>
            BY <3>5, <4>2, <4>3 DEF BodyOf, HasHeader
          <5> QED BY <3>2, <4>3, <5>1 DEF IsProgram
        <4>4. CASE ~IsProgram(c)
          <5>1. BodyOf(c) = <<>>
            BY <3>5, <4>2, <4>4 DEF BodyOf, HasHeader
          <5>2. shown[c] = 0
            BY <2>1, <5>1
          <5> QED BY <4>4, <5>2 DEF IsProgram
        <4> QED BY <4>3, <4>4
      <3> HIDE DEF f, body
      <3> QED BY <2>1, <2>2, <3>1, <3>3, <3>4, <3>5
    \* Closed at an empty line.
    <2>4. ASSUME answer[c].status = "200", IsStatic(c),
                 shown[c] < Len(BodyOf(c)), BodyOf(c)[shown[c] + 1] = "empty"
          PROVE  /\ answer[c].length = Len(f.lines)
                 /\ shown[c] = Printable(f.lines)
      <3>1. BodyOf(c) = body
        BY <2>4 DEF BodyOf
      <3>2. \A k \in 1 .. Len(body) :
                k <= Len(f.lines) /\ body[k] = f.lines[k]
        BY <2>1 DEF Known, AnswerIsKnown
      <3>3. shown[c] + 1 \in 1 .. Len(body)
        BY <2>1, <2>4, <3>1
      <3>4. /\ shown[c] <= Len(f.lines)
            /\ f.lines[shown[c] + 1] # "text"
            /\ \A k \in 1 .. shown[c] : f.lines[k] = "text"
        <4>1. shown[c] + 1 <= Len(f.lines)
          BY <3>2, <3>3
        <4>2. f.lines[shown[c] + 1] = "empty"
          BY <2>4, <3>1, <3>2, <3>3
        <4>3. \A k \in 1 .. shown[c] : k \in 1 .. Len(body) /\ body[k] = "text"
          BY <2>1, <3>1, <3>3
        <4>4. \A k \in 1 .. shown[c] : f.lines[k] = "text"
          BY <3>2, <4>3
        <4> HIDE DEF f
        <4> QED BY <2>1, <4>1, <4>2, <4>4
      <3>5. answer[c].length = Len(f.lines)
        BY <2>1, <2>2, <2>4 DEF Known, AnswerIsKnown
      <3> HIDE DEF f, body
      <3> QED BY <2>1, <3>4, <3>5, PrintableLemma
    <2>5. \/ /\ SeesEnd(c)
             /\ shown[c] < Len(BodyOf(c)) => BodyOf(c)[shown[c] + 1] = "stub"
          \/ /\ answer[c].status = "200" /\ IsStatic(c)
             /\ shown[c] < Len(BodyOf(c)) /\ BodyOf(c)[shown[c] + 1] = "empty"
      BY <2>1 DEF Known, ClientIsKnown
    <2> HIDE DEF f, body
    <2>6. CASE ~f.there
      <3>1. answer[c].status = "404" /\ shown[c] = 1
        BY <2>2, <2>3, <2>4, <2>5, <2>6
      <3> QED BY <2>6, <3>1 DEF f
    <2>7. CASE f.there /\ f.mode = "forbidden"
      BY <2>2, <2>3, <2>4, <2>5, <2>7 DEF f
    <2>8. CASE f.there /\ f.mode # "forbidden"
      BY <2>2, <2>3, <2>4, <2>5, <2>8 DEF f
    <2> QED BY <2>1, <2>6, <2>7, <2>8
  <1> QED BY <1>1, Invariance, PTL

\* What CrashHasCause takes for a cause.
IsCause(c) ==
    \/ changed[FileOf(c)] > 0
    \/ /\ IsStatic(c) /\ SetupFile(c).mode # "forbidden"
       /\ \/ SetupFile(c).lines = <<>> \/ SetupFile(c).mode = "others"
          \/ \E n \in 1 .. Len(SetupFile(c).lines) - 1 :
                SetupFile(c).lines[n] = "empty"
    \/ setup.schedule = "SFF" /\ ~SetupFile(c).there

LEMMA CauseLemma ==
    CrashHasCause <=> (crashed => \/ \E c \in accepted : IsCause(c)
                                  \/ ~setup.forks)
  BY DEF CrashHasCause, IsCause, SetupFile

\* A NULL in the queue is the cause of what it does to put_sff or a worker.
LEMMA NullIsCause ==
    ASSUME Inv, None \in queue
    PROVE  \E c \in accepted : IsCause(c)
  <1>1. PICK c \in accepted : Unchanged(c) => ~SetupFile(c).there
    BY DEF Inv, NullHasCause
  <1>2. c \in Conns /\ FileOf(c) \in Files /\ changed[FileOf(c)] \in Nat
    BY SetupLemma, NoneAssumption DEF Inv, Shapes
  <1>3. setup.schedule = "SFF"
    BY DEF Inv, OneHolder
  <1>4. changed[FileOf(c)] > 0 \/ ~SetupFile(c).there
    BY <1>1, <1>2 DEF Unchanged
  <1> QED BY <1>3, <1>4 DEF IsCause

\* The step that ends the server has a cause.
LEMMA CrashStep ==
    ASSUME Inv, ~crashed, Next, crashed'
    PROVE  (\E c \in accepted' : IsCause(c)') \/ ~setup'.forks
  <1> DEFINE Goal == (\E c \in accepted' : IsCause(c)') \/ ~setup'.forks
  <1>1. /\ setup' = setup /\ accepted \subseteq accepted'
        /\ accepted \subseteq Conns
    BY Grows, SetupNeverChanges DEF Inv, Shapes
  <1>2. ASSUME UNCHANGED changed, NEW c \in accepted, IsCause(c) PROVE Goal
    <2>1. IsCause(c)'
      BY <1>1, <1>2, SetupStays DEF IsCause
    <2> QED BY <1>1, <2>1
  <1>3. \A c \in Conns : /\ changed[FileOf(c)] \in Nat /\ FileOf(c) \in Files
                         /\ ~Unchanged(c) => changed[FileOf(c)] > 0
    BY SetupLemma, NoneAssumption DEF Inv, Shapes, Unchanged
  <1>4. ASSUME NEW c \in Conns, AcceptSFF(c) PROVE Goal
    <2>1. /\ setup.schedule = "SFF" /\ UNCHANGED changed
          /\ c \in accepted' /\ None \in queue'
      BY <1>4 DEF AcceptSFF, fs
    <2>2. CASE None \in queue
      BY <1>2, <2>1, <2>2, NullIsCause
    <2>3. CASE None \notin queue
      <3>1. ~disk[FileOf(c)].there
        BY <1>4, <2>1, <2>3, NoneAssumption DEF AcceptSFF
      <3>2. Unchanged(c) => ~SetupFile(c).there
        BY <1>3, <3>1 DEF Inv, DiskIsKnown, SetupFile, Unchanged
      <3>3. IsCause(c)
        BY <1>3, <2>1, <3>2 DEF IsCause
      <3>4. IsCause(c)'
        BY <1>1, <2>1, <3>3, SetupStays DEF IsCause
      <3> QED BY <2>1, <3>4
    <2> QED BY <2>2, <2>3
  <1>5. ASSUME NEW w \in Workers, Take(w) PROVE Goal
    <2>1. None \in queue /\ UNCHANGED changed
      BY <1>5 DEF Take, fs
    <2> QED BY <1>2, <2>1, NullIsCause
  <1>6. ASSUME NEW w \in Workers, OpenFile(w) PROVE Goal
    <2>1. UNCHANGED changed /\ wpc[w] = "open"
      BY <1>6 DEF OpenFile, fs
    <2>2. PICK c \in Conns : c = tmp[w] /\ c \in accepted
      BY <2>1, Served
    <2> DEFINE f == disk[FileOf(c)]
    <2>3. /\ Known(c) /\ IsStatic(c) /\ sbuf[c] # None
          /\ sbuf[c].mode # "forbidden" /\ sbuf[c] \in FileType
      BY <2>1, <2>2 DEF Inv, Shapes, Known, Stage
    <2>4. ~(f.there /\ f.mode = "ok" /\ Len(sbuf[c].lines) > 0)
      BY <1>6, <2>2 DEF OpenFile
    <2>5. CASE ~Unchanged(c)
      BY <1>2, <1>3, <2>1, <2>2, <2>5 DEF IsCause
    <2>6. CASE Unchanged(c)
      <3>1. f = SetupFile(c) /\ sbuf[c] = SetupFile(c) /\ f.there
        BY <1>3, <2>3, <2>6
           DEF Inv, DiskIsKnown, SetupFile, Unchanged, Known, StatIsKnown
      <3>2. /\ SetupFile(c).mode \in {"ok", "others", "forbidden"}
            /\ SetupFile(c).lines \in Seq(LineType)
        BY <2>3, <3>1, FileLemma
      <3>3. SetupFile(c).mode = "others" \/ SetupFile(c).lines = <<>>
        BY <2>3, <2>4, <3>1, <3>2
      <3> QED BY <1>2, <2>1, <2>2, <2>3, <3>1, <3>3 DEF IsCause
    <2> QED BY <2>5, <2>6
  <1>7. ASSUME NEW w \in Workers, SendPage(w) PROVE Goal
    <2>1. UNCHANGED changed /\ wpc[w] = "body"
      BY <1>7 DEF SendPage, fs
    <2>2. PICK c \in Conns : c = tmp[w] /\ c \in accepted /\ ~SeesEnd(c)
      BY <2>1, Served
    <2>3. /\ Known(c) /\ IsStatic(c) /\ answer[c].status = "200"
          /\ Len(answer[c].body) < Len(sbuf[c].lines)
          /\ sbuf[c] # None /\ sbuf[c] \in FileType
          /\ SetupFile(c).mode # "forbidden"
          /\ answer[c].body \in Seq(LineType) /\ shown[c] \in Nat
      <3>1. answer[c] \in AnswerType
        BY DEF Inv, Shapes
      <3> QED BY <2>1, <2>2, <3>1, AnswerLemma
              DEF Inv, Shapes, Known, Stage, AnswerIsKnown
    <2>4. CASE ~Unchanged(c)
      BY <1>2, <1>3, <2>1, <2>2, <2>4 DEF IsCause
    <2>5. CASE Unchanged(c)
      <3>1. /\ disk[FileOf(c)] = SetupFile(c) /\ sbuf[c] = SetupFile(c)
            /\ Len(SetupFile(c).lines) \in Nat
        BY <1>3, <2>3, <2>5, FileLemma
           DEF Inv, DiskIsKnown, SetupFile, Unchanged, Known, StatIsKnown
      <3>2. client[c] = "closed"
        <4>1. /\ Len(answer[c].body) \in Nat
              /\ ~(Len(answer[c].body) + 1 > Len(disk[FileOf(c)].lines))
          BY <2>3, <3>1
        <4> QED BY <1>7, <2>2, <4>1 DEF SendPage
      <3>3. BodyOf(c) = answer[c].body
        BY <2>3 DEF BodyOf
      <3>4. /\ shown[c] < Len(answer[c].body)
            /\ answer[c].body[shown[c] + 1] = "empty"
        BY <2>2, <2>3, <3>2, <3>3 DEF Known, ClientIsKnown
      <3>5. /\ shown[c] + 1 \in 1 .. Len(SetupFile(c).lines) - 1
            /\ shown[c] + 1 \in 1 .. Len(answer[c].body)
        <4>1. PICK i \in Nat : i = shown[c]
          BY <2>3
        <4>2. PICK j, k \in Nat : /\ j = Len(answer[c].body)
                                  /\ k = Len(SetupFile(c).lines)
          BY <2>3, <3>1
        <4>3. i < j /\ j < k
          BY <2>3, <3>1, <3>4, <4>1, <4>2
        <4>4. i + 1 \in 1 .. k - 1 /\ i + 1 \in 1 .. j
          BY <4>3
        <4> QED BY <4>1, <4>2, <4>4
      <3>6. SetupFile(c).lines[shown[c] + 1] = "empty"
        BY <2>3, <2>5, <3>4, <3>5 DEF Known, AnswerIsKnown
      <3> QED BY <1>2, <2>1, <2>2, <2>3, <3>5, <3>6 DEF IsCause
    <2> QED BY <2>4, <2>5
  <1>8. ASSUME NEW w \in Workers, Fork(w) PROVE Goal
    BY <1>1, <1>8 DEF Fork
  <1>9. ~\E w \in Workers : Stat(w) \/ Wait(w) \/ Close(w)
    BY DEF Stat, Wait, Close
  <1>10. /\ ~\E c \in Conns : \/ Accept(c) \/ Exec(c) \/ ProgramEnds(c)
                             \/ ClientStep(c)
         /\ ~\E f \in Files : Change(f)
         /\ ~AcceptAndHandle
    BY DEF Accept, Exec, ProgramEnds, ClientStep, ReadHeader, ReadLine,
           ReadEnd, Change, AcceptAndHandle
  <1> QED BY <1>4, <1>5, <1>6, <1>7, <1>8, <1>9, <1>10 DEF Next, Handle

\* The server ends only for the causes CrashHasCause lists: not because of the
\* order in which the threads, the processes and the clients run.
THEOREM CrashesHaveCauses == Spec => []CrashHasCause
  <1>1. Init => CrashHasCause
    BY DEF Init, CrashHasCause
  <1>2. Inv /\ CrashHasCause /\ [Next]_vars => CrashHasCause'
    <2>0. (CrashHasCause <=> (crashed => \/ \E c \in accepted : IsCause(c)
                                         \/ ~setup.forks))'
      BY CauseLemma, PTL
    <2> SUFFICES ASSUME Inv, CrashHasCause, [Next]_vars, crashed'
                 PROVE  (\E c \in accepted' : IsCause(c)') \/ ~setup'.forks
      BY <2>0
    <2>1. CASE UNCHANGED vars
      <3>1. /\ UNCHANGED <<setup, changed, accepted, crashed>>
        BY <2>1 DEF vars, fs, conns
      <3>2. (\E c \in accepted : IsCause(c)) \/ ~setup.forks
        BY <3>1, CauseLemma
      <3>3. \A c \in accepted : IsCause(c)' = IsCause(c)
        BY <3>1, SetupStays DEF IsCause
      <3> QED BY <3>1, <3>2, <3>3
    <2>2. CASE Next
      BY <2>2, CrashStep DEF Next
    <2> QED BY <2>1, <2>2
  <1> QED BY <1>1, <1>2, Invariance, PTL DEF Spec

-----------------------------------------------------------------------------
(* Children.                                                               *)

Waiting == {w \in Workers : wpc[w] = "wait"}

\* With one thread, the only child is the one it waits for.
ChildrenAreWaitedFor ==
    /\ Cardinality(Unreaped) = Cardinality(Waiting)
    /\ setup.schedule = "one" =>
           /\ Unreaped \subseteq {tmp[Main]}
           /\ wpc[Main] # "wait" => Unreaped = {}
           /\ \A c \in Conns : holds[c] \subseteq {c}

LEMMA ChildrenAreFinite ==
    /\ IsFiniteSet(Unreaped) /\ IsFiniteSet(Waiting)
    /\ IsFiniteSet(Unreaped') /\ IsFiniteSet(Waiting')
  BY ThreadsAssumption, FS_Subset DEF Unreaped, Waiting

\* A step that neither makes nor reaps a child.
LEMMA SameChildren ==
    ASSUME ChildrenAreWaitedFor, Unreaped' = Unreaped, Waiting' = Waiting,
           UNCHANGED setup,
           setup.schedule = "one" =>
               /\ wpc[Main] = "wait" => tmp'[Main] = tmp[Main]
               /\ wpc'[Main] = "wait" <=> wpc[Main] = "wait"
               /\ \A c \in Conns : holds'[c] \subseteq holds[c]
    PROVE  ChildrenAreWaitedFor'
  BY DEF ChildrenAreWaitedFor

LEMMA ChildrenStep ==
    ASSUME Inv, ChildrenAreWaitedFor, [Next]_vars
    PROVE  ChildrenAreWaitedFor'
  <1>1. /\ wpc \in [Workers -> PCs] /\ Main \in Workers
        /\ child \in [Conns -> {"none", "forked", "runs", "ended", "reaped"}]
        /\ holds \in [Conns -> SUBSET accepted] /\ UNCHANGED setup
    BY MainLemma, SetupNeverChanges DEF Inv, Shapes
  \* A worker that goes from one place to another one where it does not wait.
  <1>2. ASSUME NEW w \in Workers, NEW p \in PCs \ {"wait"}, wpc[w] # "wait",
               wpc' = [wpc EXCEPT ![w] = p] \/ wpc' = wpc,
               UNCHANGED procs,
               \A v \in Workers : v # w => tmp'[v] = tmp[v]
        PROVE  ChildrenAreWaitedFor'
    <2>1. Waiting' = Waiting /\ (wpc'[Main] = "wait" <=> wpc[Main] = "wait")
      BY <1>1, <1>2 DEF Waiting
    <2>2. Unreaped' = Unreaped
      BY <1>2 DEF Unreaped, procs
    <2>3. wpc[Main] = "wait" => tmp'[Main] = tmp[Main]
      BY <1>1, <1>2
    <2>4. \A c \in Conns : holds'[c] \subseteq holds[c]
      BY <1>2 DEF procs
    <2> QED BY <1>1, <2>1, <2>2, <2>3, <2>4, SameChildren
  \* A step of somebody else.
  <1>3. ASSUME UNCHANGED threads, Unreaped' = Unreaped,
               \A c \in Conns : holds'[c] \subseteq holds[c]
        PROVE  ChildrenAreWaitedFor'
    <2>1. Waiting' = Waiting
      BY <1>3 DEF Waiting, threads
    <2> QED BY <1>1, <1>3, <2>1, SameChildren DEF threads
  <1>4. ASSUME NEW w \in Workers, Take(w) PROVE ChildrenAreWaitedFor'
    <2>1. /\ wpc[w] = "idle" /\ UNCHANGED procs
          /\ \E c : tmp' = [tmp EXCEPT ![w] = c]
          /\ \E p \in PCs \ {"wait"} :
                wpc' = [wpc EXCEPT ![w] = p] \/ wpc' = wpc
      BY <1>4 DEF Take, Decide, Goto, PCs
    <2> QED BY <1>2, <2>1 DEF Inv, Shapes
  <1>5. ASSUME NEW w \in Workers, Stat(w) \/ OpenFile(w) \/ SendPage(w)
        PROVE  ChildrenAreWaitedFor'
    <2>1. /\ wpc[w] # "wait" /\ UNCHANGED procs /\ UNCHANGED tmp
          /\ \E p \in PCs \ {"wait"} :
                wpc' = [wpc EXCEPT ![w] = p] \/ wpc' = wpc
      BY <1>5 DEF Stat, OpenFile, SendPage, Decide, Goto, PCs
    <2> QED BY <1>2, <2>1
  <1>6. ASSUME NEW w \in Workers, Close(w) PROVE ChildrenAreWaitedFor'
    <2>1. /\ wpc[w] # "wait" /\ UNCHANGED procs
          /\ tmp' = [tmp EXCEPT ![w] = None]
          /\ wpc' = [wpc EXCEPT ![w] = "idle"]
      BY <1>6 DEF Close, Goto
    <2>2. "idle" \in PCs \ {"wait"}
      BY DEF PCs
    <2> QED BY <1>2, <2>1, <2>2 DEF Inv, Shapes
  <1>7. CASE AcceptAndHandle
    <2>1. /\ wpc[Main] # "wait" /\ UNCHANGED procs
          /\ \E c : tmp' = [tmp EXCEPT ![Main] = c]
          /\ wpc' = [wpc EXCEPT ![Main] = "stat"]
      BY <1>7 DEF AcceptAndHandle, Goto
    <2>2. "stat" \in PCs \ {"wait"}
      BY DEF PCs
    <2> QED BY <1>1, <1>2, <2>1, <2>2 DEF Inv, Shapes
  <1>8. ASSUME NEW c \in Conns, Exec(c) \/ ProgramEnds(c)
        PROVE  ChildrenAreWaitedFor'
    <2>1. /\ UNCHANGED threads
          /\ child[c] \in {"forked", "runs"} /\ child'[c] \in {"runs", "ended"}
          /\ \A d \in Conns \ {c} : child'[d] = child[d]
      BY <1>1, <1>8 DEF Exec, ProgramEnds
    <2>2. \A d \in Conns : holds'[d] \subseteq holds[d]
      BY <1>1, <1>8 DEF Exec, ProgramEnds
    <2>3. Unreaped' = Unreaped
      BY <2>1 DEF Unreaped
    <2> QED BY <1>3, <2>1, <2>2, <2>3
  <1>9. ASSUME ~crashed, NEW w \in Workers, Fork(w) PROVE ChildrenAreWaitedFor'
    <2>1. wpc[w] = "fork" /\ UNCHANGED tmp
      BY <1>9 DEF Fork
    <2>2. PICK c \in Conns : c = tmp[w] /\ c \in open
      BY <2>1, Served
    <2>3. child[c] = "none"
      BY <1>9, <2>1, <2>2 DEF Inv, Known, Stage, Fresh
    <2>4. CASE UNCHANGED <<child, holds, wpc>>
      <3>1. UNCHANGED threads /\ Unreaped' = Unreaped
        BY <2>1, <2>4 DEF threads, Unreaped
      <3> QED BY <1>3, <2>4, <3>1
    <2>5. CASE /\ child' = [child EXCEPT ![c] = "forked"]
               /\ holds' = [holds EXCEPT ![c] = open]
               /\ wpc' = [wpc EXCEPT ![w] = "wait"]
      <3>1. Unreaped' = Unreaped \cup {c} /\ c \notin Unreaped
        BY <1>1, <2>3, <2>5 DEF Unreaped
      <3>2. Waiting' = Waiting \cup {w} /\ w \notin Waiting
        BY <1>1, <2>1, <2>5 DEF Waiting
      <3>3. Cardinality(Unreaped') = Cardinality(Waiting')
        BY <3>1, <3>2, ChildrenAreFinite, FS_AddElement
           DEF ChildrenAreWaitedFor
      <3>4. ASSUME setup.schedule = "one"
            PROVE  /\ Unreaped' \subseteq {tmp'[Main]}
                   /\ wpc'[Main] = "wait"
                   /\ \A d \in Conns : holds'[d] \subseteq {d}
        <4>1. w = Main /\ open \subseteq {tmp[Main]}
          BY <2>2, <3>4, NoneAssumption DEF Inv, OneHolder
        <4>2. Unreaped = {} /\ \A d \in Conns : holds[d] \subseteq {d}
          BY <2>1, <3>4, <4>1 DEF ChildrenAreWaitedFor
        <4> QED BY <1>1, <2>1, <2>2, <2>5, <3>1, <4>1, <4>2
      <3> QED BY <1>1, <3>3, <3>4 DEF ChildrenAreWaitedFor
    <2> QED BY <1>9, <2>2, <2>4, <2>5 DEF Fork, Goto
  <1>10. ASSUME NEW w \in Workers, Wait(w) PROVE ChildrenAreWaitedFor'
    <2>1. /\ wpc[w] = "wait" /\ UNCHANGED <<tmp, holds>>
          /\ wpc' = [wpc EXCEPT ![w] = "close"]
      BY <1>10 DEF Wait, Goto
    <2>2. PICK c \in Conns : /\ child[c] = "ended"
                             /\ child' = [child EXCEPT ![c] = "reaped"]
      BY <1>10 DEF Wait
    <2>3. Unreaped' = Unreaped \ {c} /\ c \in Unreaped
      BY <1>1, <2>2 DEF Unreaped
    <2>4. Waiting' = Waiting \ {w} /\ w \in Waiting
      BY <1>1, <2>1 DEF Waiting
    <2>5. Cardinality(Unreaped') = Cardinality(Waiting')
      BY <2>3, <2>4, ChildrenAreFinite, FS_RemoveElement
         DEF ChildrenAreWaitedFor
    <2>6. setup.schedule = "one" => Unreaped' = {}
      BY <2>3 DEF ChildrenAreWaitedFor
    <2> QED BY <1>1, <2>1, <2>5, <2>6 DEF ChildrenAreWaitedFor
  <1>11. ASSUME UNCHANGED <<threads, procs>> PROVE ChildrenAreWaitedFor'
    <2>1. UNCHANGED threads /\ Unreaped' = Unreaped /\ holds' = holds
      BY <1>11 DEF Unreaped, procs
    <2> QED BY <1>3, <2>1
  <1>12. ASSUME NEW c \in Conns,
                Accept(c) \/ AcceptSFF(c) \/ ClientStep(c)
         PROVE  ChildrenAreWaitedFor'
    BY <1>11, <1>12
       DEF Accept, AcceptSFF, ClientStep, ReadHeader, ReadLine, ReadEnd
  <1>13. ASSUME NEW f \in Files, Change(f) PROVE ChildrenAreWaitedFor'
    BY <1>11, <1>13 DEF Change
  <1>14. CASE UNCHANGED vars
    BY <1>11, <1>14 DEF vars
  <1> QED BY <1>4, <1>5, <1>6, <1>7, <1>8, <1>9, <1>10, <1>12, <1>13, <1>14
          DEF Next, Handle

\* wait never fails for want of a child, for any number of workers: although
\* one may reap what another one has forked, as many children remain as workers
\* that wait.  With one thread, it is the thread's own child.
THEOREM WaitIsNeverVain == Spec => []WaitFindsAChild
  <1>1. Init => ChildrenAreWaitedFor
    <2> SUFFICES ASSUME Init PROVE ChildrenAreWaitedFor
      OBVIOUS
    <2>1. Unreaped = {} /\ Waiting = {}
      BY DEF Init, Unreaped, Waiting
    <2> QED BY <2>1 DEF Init, ChildrenAreWaitedFor
  <1>2. ChildrenAreWaitedFor => WaitFindsAChild
    BY DEF ChildrenAreWaitedFor, WaitFindsAChild, Waiting
  <1> QED BY <1>1, <1>2, Invariance, ChildrenStep, PTL DEF Spec

=============================================================================
