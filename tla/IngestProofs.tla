---------------------------- MODULE IngestProofs ----------------------------
(***************************************************************************)
(* What is proved of an ingest (Ingest), and of the models that embed what *)
(* it writes (Models).  The two share nothing.                             *)
(***************************************************************************)
EXTENDS Ingest, Models, FiniteSetTheorems, TLAPS

-----------------------------------------------------------------------------
(***************************************************************************)
(* However many files, sections and texts there are, and whatever happens  *)
(* while an ingest runs, IngestInv is inductive.                           *)
(***************************************************************************)

LEMMA WhatIsAssumed ==
  /\ Of \in [Sections -> Files] /\ Thin \subseteq Texts
  /\ Never \notin Texts /\ Off \notin Texts /\ NoFile \notin Content
  /\ \A f \in Files : Contents[f] \subseteq Content
  /\ \A f \in Files : \A c \in Contents[f] :
       DOMAIN c \subseteq Sections /\ \A s \in DOMAIN c : Of[s] = f /\ c[s] \in Texts
  /\ \A s \in Sections, text \in Texts : <<s, text>> \in ByHand => text \notin Thin
BY IngestAssumption DEF IngestAssumption, Content, SectionsOf

LEMMA IdleIsRun == Idle \in Run
BY IngestAssumption
DEF IngestAssumption, Idle, Run, Phases, Tree, Look, How, Stat, Unlooked

\* What a file was cut into is of that file.
LEMMA CutIsOfFile ==
  ASSUME TypeOK, ContentsAreOfFiles
  PROVE  /\ \A s \in Sections :
              s \in CutSections <=> Of[s] \in Cut /\ s \in DOMAIN run.look[Of[s]].says
         /\ CutSections \subseteq Sections
         /\ \A s \in CutSections : Of[s] \in Cut /\ TextOf(s) \in Texts
BY WhatIsAssumed DEF TypeOK, ContentsAreOfFiles, CutSections, Cut, TextOf

\* What happens beside an ingest changes of it only what `known` says.
LEMMA HappensBeside ==
  ASSUME TypeOK, NEW known \in Run, known.meanwhile = run.meanwhile, Happens(known)
  PROVE  /\ run' \in Run
         /\ run.phase = "idle" => run' = run /\ run = Idle
         /\ run.phase # "idle" =>
              /\ run'.phase = known.phase /\ run'.todo = known.todo
              /\ run'.deleted = known.deleted /\ run'.tree = known.tree
              /\ run'.read = known.read /\ run'.look = known.look
              /\ run'.known = known.known /\ run'.seen = known.seen
              /\ run'.gone = known.gone /\ run'.retirable = known.retirable
              /\ run'.new = known.new /\ run'.rest = known.rest
              /\ run'.emptied = known.emptied /\ run'.left = known.left
              /\ run'.stale = known.stale
              /\ run'.unsettled = known.unsettled /\ run'.since = known.since
<1>1. CASE run.phase = "idle"
  BY <1>1, IdleIsRun DEF Happens, TypeOK
<1>2. CASE run.phase # "idle"
  <2>1. run' = [known EXCEPT !.meanwhile = @ + 1] /\ run.meanwhile < Meanwhile
    BY <1>2 DEF Happens
  <2>2. run.meanwhile + 1 \in 0 .. Meanwhile
    BY <2>1, IngestAssumption DEF TypeOK, Run, IngestAssumption
  <2> QED BY <1>2, <2>1, <2>2 DEF Run
<1> QED BY <1>1, <1>2

-----------------------------------------------------------------------------
(* What happens meanwhile.                                                 *)

LEMMA ChangeKeeps ==
  ASSUME IngestInv, NEW f \in Files, NEW content \in Content \cup {NoFile},
         Change(f, content)
  PROVE  IngestInv'
<1> USE DEF IngestInv
<1>1. PICK hidden \in BOOLEAN : Restat(f, hidden)
  BY DEF Change
<1> DEFINE stat(old) == IF hidden /\ old = "racy" THEN old ELSE "moved"
           restat(r) == IF r = NoRecord THEN r ELSE [r EXCEPT !.stat = stat(@)]
           known == [run EXCEPT !.look[f].stat = stat(@), !.read[f] = restat(@)]
<1>2. /\ record' = [record EXCEPT ![f] = restat(@)] /\ Happens(known)
      /\ disk' = [disk EXCEPT ![f] = content] /\ content \in Contents[f] \cup {NoFile}
      /\ UNCHANGED <<says, filed, byHand, untrue>>
  BY <1>1 DEF Restat, Change, topics
<1>3. \A r \in Record \cup {NoRecord} :
        /\ restat(r) \in Record \cup {NoRecord}
        /\ r = NoRecord => restat(r) = NoRecord
        /\ r # NoRecord => restat(r).says = r.says /\ restat(r).stat # "settled"
  BY DEF Record, Stat
<1>4. \A look \in Look :
        LET new == [look EXCEPT !.stat = stat(@)]
        IN new \in Look /\ new.how = look.how /\ new.says = look.says /\ new.stat # "settled"
  BY DEF Look, Stat
<1> DEFINE look == [run.look EXCEPT ![f].stat = stat(@)]
           read == [run.read EXCEPT ![f] = restat(@)]
<1>5. /\ run \in Run /\ run.look \in [Files -> Look]
      /\ run.read \in [Files -> Record \cup {NoRecord}]
  BY DEF TypeOK, Run
<1>6. look \in [Files -> Look] /\ read \in [Files -> Record \cup {NoRecord}]
  BY <1>3, <1>4, <1>5
<1>7. known = [run EXCEPT !.look = look, !.read = read]
  BY <1>5 DEF Run
<1>8. /\ \A g \in Files : /\ look[g].how = run.look[g].how /\ look[g].says = run.look[g].says
                          /\ g # f => look[g].stat = run.look[g].stat
      /\ look[f].stat # "settled"
      /\ \A g \in Files : /\ read[g] # NoRecord =>
                               run.read[g] # NoRecord /\ read[g].says = run.read[g].says
                          /\ run.read[g] = NoRecord => read[g] = NoRecord
  BY <1>3, <1>4, <1>5
<1>9. /\ \A g \in Files : /\ record'[g] # NoRecord =>
                               record[g] # NoRecord /\ record'[g].says = record[g].says
                          /\ record[g] = NoRecord => record'[g] = NoRecord
                          /\ g # f => record'[g] = record[g]
      /\ record'[f] # NoRecord => record'[f].stat # "settled"
      /\ record' \in [Files -> Record \cup {NoRecord}]
  BY <1>2, <1>3 DEF TypeOK
<1>10. \A g \in Files : g # f => disk'[g] = disk[g]
  BY <1>2 DEF TypeOK
<1> HIDE DEF stat, restat, look, read
<1>11. known \in Run /\ known.meanwhile = run.meanwhile
  BY <1>5, <1>6, <1>7 DEF Run
<1>12. /\ run' \in Run
       /\ run.phase = "idle" => run' = run /\ run = Idle
       /\ run.phase # "idle" => run'.look = look /\ run'.read = read
       /\ run'.phase = run.phase /\ run'.todo = run.todo
       /\ run'.deleted = run.deleted /\ run'.tree = run.tree
       /\ run'.known = run.known /\ run'.gone = run.gone /\ run'.retirable = run.retirable
       /\ run'.new = run.new /\ run'.rest = run.rest /\ run'.emptied = run.emptied
       /\ run'.stale = run.stale
       /\ run'.unsettled = run.unsettled /\ run'.since = run.since
  <2> HIDE DEF known
  <2>1. /\ known.phase = run.phase /\ known.todo = run.todo
        /\ known.deleted = run.deleted /\ known.tree = run.tree
        /\ known.known = run.known /\ known.gone = run.gone
        /\ known.retirable = run.retirable /\ known.new = run.new
        /\ known.rest = run.rest /\ known.emptied = run.emptied
        /\ known.stale = run.stale
        /\ known.unsettled = run.unsettled /\ known.since = run.since
        /\ known.look = look /\ known.read = read
    BY <1>5, <1>7 DEF Run
  <2> QED BY <1>2, <1>11, <2>1, HappensBeside
<1>13. /\ \A g \in Files : /\ run'.look[g].how = run.look[g].how
                           /\ run'.look[g].says = run.look[g].says
                           /\ g # f => run'.look[g].stat = run.look[g].stat
                           /\ run'.read[g] # NoRecord =>
                                run.read[g] # NoRecord /\ run'.read[g].says = run.read[g].says
                           /\ run.read[g] = NoRecord => run'.read[g] = NoRecord
       /\ run'.look[f].stat # "settled"
  <2>1. run.phase = "idle" => run'.look[f].stat # "settled"
    BY <1>12 DEF Idle, Unlooked
  <2> QED BY <1>8, <1>12, <2>1
<1>14. /\ Cut' = Cut /\ CutSections' = CutSections
       /\ WrittenSince' = WrittenSince /\ KeptStale' = KeptStale
       /\ \A s \in CutSections : TextOf(s)' = TextOf(s)
  <2>1. Cut' = Cut
    BY <1>13 DEF Cut
  <2>2. CutSections' = CutSections
    BY <1>13, <2>1 DEF CutSections, Cut
  <2>3. WrittenSince' = WrittenSince /\ KeptStale' = KeptStale
    BY <1>12, <1>13, <2>1 DEF WrittenSince, KeptStale, Cut
  <2>4. \A s \in CutSections : TextOf(s)' = TextOf(s)
    BY <1>13, CutIsOfFile DEF TextOf, Cut
  <2> QED BY <2>1, <2>2, <2>3, <2>4
<1>15. TypeOK'
  BY <1>2, <1>9, <1>12 DEF TypeOK
<1>16. ContentsAreOfFiles'
  BY <1>2, <1>9, <1>10, <1>13 DEF ContentsAreOfFiles, TypeOK
<1>17. TrustedIsUnchanged' /\ LooksAreTrue'
  BY <1>9, <1>10, <1>13 DEF TrustedIsUnchanged, LooksAreTrue, trusted
<1>18. ReadIsRecorded'
  BY <1>9, <1>12, <1>13 DEF ReadIsRecorded
<1>19. /\ CutIsForgotten' /\ WalkedOrTold' /\ SurfaceHasSource' /\ LookedOnce'
       /\ NothingEmptied'
  BY <1>2, <1>9, <1>12, <1>13, <1>14
  DEF CutIsForgotten, NothingEmptied, At, LookedOnce, TypeOK, Run, WalkedOrTold, SurfaceHasSource, OnSurface, Cut
<1>20. RecordingGoesOn'
  <2>1. SUFFICES ASSUME At("record")' PROVE RecordingGoesOn'
    BY DEF RecordingGoesOn
  <2>2. At("record")
    BY <1>12, <2>1 DEF At
  <2>3. \A s \in Sections : IsUnderWay(s) => IsUnderWay(s)'
    BY <1>2, <1>12, <1>14 DEF IsUnderWay, OnSurface
  <2>4. \A s \in run'.retirable : trusted(record'[Of[s]]) => Of[s] \in run'.deleted
    BY <1>9, <1>12, <2>2, WhatIsAssumed DEF RecordingGoesOn, trusted, TypeOK, Run
  <2> QED BY <1>12, <1>14, <2>2, <2>3, <2>4 DEF RecordingGoesOn
<1>21. SettledIsTrue'
  BY <1>2, <1>12, <1>13, <1>14 DEF SettledIsTrue, SurfaceSays, OnSurface, Cut
<1>22. RecordIsTrue'
  BY <1>2, <1>9 DEF RecordIsTrue, SurfaceSays, OnSurface
<1> QED
  BY <1>15, <1>16, <1>17, <1>18, <1>19, <1>20, <1>21, <1>22

\* A write by hand is of one section, and notes it when an ingest runs.
LEMMA HandIsNoted ==
  ASSUME IngestInv, NEW s \in Sections, NEW seen \in SUBSET run.seen,
         Happens([run EXCEPT !.seen = seen, !.since = @ \cup {s}])
  PROVE  /\ run' \in Run /\ (run.phase = "idle" => run' = run /\ run = Idle)
         /\ run'.phase = run.phase /\ run'.todo = run.todo
         /\ run'.deleted = run.deleted /\ run'.tree = run.tree
         /\ run'.known = run.known /\ run'.gone = run.gone /\ run'.retirable = run.retirable
         /\ run'.new = run.new /\ run'.rest = run.rest /\ run'.emptied = run.emptied
         /\ run'.stale = run.stale
         /\ run'.unsettled = run.unsettled /\ run'.look = run.look /\ run'.read = run.read
         /\ run.phase # "idle" => run'.since = run.since \cup {s}
         /\ Cut' = Cut /\ CutSections' = CutSections
         /\ \A r \in Sections : TextOf(r)' = TextOf(r)
<1> DEFINE known == [run EXCEPT !.seen = seen, !.since = @ \cup {s}]
<1>1. run \in Run
  BY DEF IngestInv, TypeOK
<1>2. /\ known \in Run /\ known.meanwhile = run.meanwhile
      /\ known.phase = run.phase /\ known.todo = run.todo
      /\ known.deleted = run.deleted /\ known.tree = run.tree
      /\ known.known = run.known /\ known.gone = run.gone
      /\ known.retirable = run.retirable /\ known.new = run.new
      /\ known.rest = run.rest /\ known.emptied = run.emptied
      /\ known.stale = run.stale
      /\ known.unsettled = run.unsettled /\ known.since = run.since \cup {s}
      /\ known.look = run.look /\ known.read = run.read
  BY <1>1 DEF Run
<1>3. Happens(known)
  OBVIOUS
<1> HIDE DEF known
<1>4. /\ run' \in Run /\ (run.phase = "idle" => run' = run /\ run = Idle)
      /\ run'.phase = run.phase /\ run'.todo = run.todo
      /\ run'.deleted = run.deleted /\ run'.tree = run.tree
      /\ run'.known = run.known /\ run'.gone = run.gone /\ run'.retirable = run.retirable
      /\ run'.new = run.new /\ run'.rest = run.rest /\ run'.emptied = run.emptied
      /\ run'.stale = run.stale
      /\ run'.unsettled = run.unsettled /\ run'.look = run.look /\ run'.read = run.read
      /\ run.phase # "idle" => run'.since = run.since \cup {s}
  BY <1>2, <1>3, HappensBeside DEF IngestInv
<1>5. Cut' = Cut /\ CutSections' = CutSections /\ \A r \in Sections : TextOf(r)' = TextOf(r)
  BY <1>4 DEF Cut, CutSections, TextOf
<1> QED BY <1>4, <1>5

\* A record that a write by hand leaves standing is of a file the section is not of, or
\* is not said to be true any more.
LEMMA WriteByHandKeeps ==
  ASSUME IngestInv, NEW s \in Sections, NEW text \in Texts, WriteByHand(s, text)
  PROVE  IngestInv'
<1> USE DEF IngestInv
<1>1. /\ Happens([run EXCEPT !.seen = run.seen \ {s}, !.since = @ \cup {s}])
      /\ run.seen \ {s} \in SUBSET run.seen
  BY DEF WriteByHand
<1>2. /\ run' \in Run /\ (run.phase = "idle" => run' = run /\ run = Idle)
      /\ run'.phase = run.phase /\ run'.todo = run.todo
      /\ run'.deleted = run.deleted /\ run'.tree = run.tree
      /\ run'.known = run.known /\ run'.gone = run.gone /\ run'.retirable = run.retirable
      /\ run'.new = run.new /\ run'.rest = run.rest /\ run'.emptied = run.emptied
      /\ run'.stale = run.stale
      /\ run'.unsettled = run.unsettled /\ run'.look = run.look /\ run'.read = run.read
      /\ run.phase # "idle" => run'.since = run.since \cup {s}
      /\ Cut' = Cut /\ CutSections' = CutSections
      /\ \A r \in Sections : TextOf(r)' = TextOf(r)
  BY <1>1, HandIsNoted
<1>3. /\ disk' = disk /\ filed' = filed /\ byHand' = byHand \cup {s}
      /\ says' \in [Sections -> Texts \cup {Never, Off}]
      /\ \A r \in Sections : says'[r] = IF r = s THEN text ELSE says[r]
      /\ text \notin Thin
  BY WhatIsAssumed DEF WriteByHand, TypeOK
<1>4. /\ record' \in [Files -> Record \cup {NoRecord}] /\ untrue' \subseteq Files
      /\ \A f \in Files : record'[f] \in {record[f], NoRecord}
  <2>1. PICK forgets \in BOOLEAN :
          /\ record' = [record EXCEPT ![Of[s]] = IF forgets THEN NoRecord ELSE @]
          /\ untrue' = IF forgets THEN untrue \ {Of[s]}
                       ELSE untrue \cup {f \in Files : s \in Recorded(f)}
    BY Zenon DEF WriteByHand
  <2> QED BY <2>1, WhatIsAssumed DEF TypeOK
<1>5. \A f \in Files \ untrue' : record'[f] # NoRecord =>
        f \notin untrue /\ (s \in DOMAIN record[f].says => Of[s] # f)
  BY WhatIsAssumed DEF WriteByHand, TypeOK, Recorded
<1>6. TypeOK'
  BY <1>2, <1>3, <1>4 DEF TypeOK
<1>7. ContentsAreOfFiles' /\ TrustedIsUnchanged' /\ LooksAreTrue' /\ ReadIsRecorded'
  BY <1>2, <1>3, <1>4
  DEF ContentsAreOfFiles, TrustedIsUnchanged, LooksAreTrue, ReadIsRecorded, trusted
<1>8. /\ CutIsForgotten' /\ WalkedOrTold' /\ SurfaceHasSource' /\ LookedOnce'
      /\ NothingEmptied'
  BY <1>2, <1>3, <1>4
  DEF CutIsForgotten, NothingEmptied, At, LookedOnce, WalkedOrTold, SurfaceHasSource, OnSurface, Cut
<1>9. RecordingGoesOn'
  <2>1. SUFFICES ASSUME At("record")' PROVE RecordingGoesOn'
    BY DEF RecordingGoesOn
  <2>2. At("record") /\ run'.since = run.since \cup {s}
    BY <1>2, <2>1 DEF At
  <2>3. \A r \in Sections : IsUnderWay(r) => IsUnderWay(r)'
    BY <1>2, <1>3, <2>2 DEF IsUnderWay, OnSurface
  <2>4. \A r \in run'.retirable : trusted(record'[Of[r]]) => Of[r] \in run'.deleted
    BY <1>2, <1>4, <2>2, WhatIsAssumed DEF RecordingGoesOn, trusted, TypeOK, Run
  <2> QED BY <1>2, <2>2, <2>3, <2>4, CutIsOfFile DEF RecordingGoesOn
<1>10. SettledIsTrue'
  <2>1. SUFFICES ASSUME run'.phase \in {"left", "put"}, NEW f \in Cut',
                        f \notin WrittenSince' \cup KeptStale'
                 PROVE  SurfaceSays(f, run.look[f].says)'
    BY <1>2 DEF SettledIsTrue
  <2>2. /\ f \in Cut /\ f \notin WrittenSince \cup KeptStale
        /\ s \notin DOMAIN run.look[f].says
        /\ run.phase \in {"left", "put"}
    BY <1>2, <2>1 DEF WrittenSince, KeptStale
  <2>3. SurfaceSays(f, run.look[f].says)
    BY <2>2 DEF SettledIsTrue
  <2> QED BY <1>2, <1>3, <2>2, <2>3 DEF SurfaceSays, OnSurface, SectionsOf
<1>11. RecordIsTrue'
  <2>1. SUFFICES ASSUME NEW f \in Files \ untrue', record'[f] # NoRecord
                 PROVE  SurfaceSays(f, record[f].says)'
    BY DEF RecordIsTrue
  <2>2. /\ record'[f] = record[f] /\ f \notin untrue
        /\ s \in DOMAIN record[f].says => Of[s] # f
    BY <1>4, <1>5, <2>1
  <2>3. SurfaceSays(f, record[f].says)
    BY <2>1, <2>2 DEF RecordIsTrue
  <2> QED BY <1>3, <2>2, <2>3 DEF SurfaceSays, OnSurface, SectionsOf
<1> QED
  BY <1>6, <1>7, <1>8, <1>9, <1>10, <1>11

LEMMA WriteHeldKeeps ==
  ASSUME IngestInv, NEW s \in Sections, WriteHeld(s)
  PROVE  IngestInv'
<1> USE DEF IngestInv
<1>1. /\ run \in Run
      /\ Happens([run EXCEPT !.seen = run.seen, !.since = @ \cup {s}])
  <2>1. run \in Run /\ Happens([run EXCEPT !.since = @ \cup {s}])
    BY DEF WriteHeld, TypeOK
  <2>2. [run EXCEPT !.since = @ \cup {s}] = [run EXCEPT !.seen = run.seen, !.since = @ \cup {s}]
    BY <2>1 DEF Run
  <2> QED BY <2>1, <2>2
<1>2. /\ run' \in Run /\ (run.phase = "idle" => run' = run /\ run = Idle)
      /\ run'.phase = run.phase /\ run'.todo = run.todo
      /\ run'.deleted = run.deleted /\ run'.tree = run.tree
      /\ run'.known = run.known /\ run'.gone = run.gone /\ run'.retirable = run.retirable
      /\ run'.new = run.new /\ run'.rest = run.rest /\ run'.emptied = run.emptied
      /\ run'.stale = run.stale
      /\ run'.unsettled = run.unsettled /\ run'.look = run.look /\ run'.read = run.read
      /\ run.phase # "idle" => run'.since = run.since \cup {s}
      /\ Cut' = Cut /\ CutSections' = CutSections
      /\ \A r \in Sections : TextOf(r)' = TextOf(r)
  BY <1>1, HandIsNoted
<1>3. byHand' = byHand \cup {s} /\ UNCHANGED <<disk, says, filed, record, untrue>>
  BY DEF WriteHeld
<1>4. TypeOK'
  BY <1>2, <1>3 DEF TypeOK
<1>5. ContentsAreOfFiles' /\ TrustedIsUnchanged' /\ LooksAreTrue' /\ ReadIsRecorded'
  BY <1>2, <1>3
  DEF ContentsAreOfFiles, TrustedIsUnchanged, LooksAreTrue, ReadIsRecorded, trusted
<1>6. /\ CutIsForgotten' /\ WalkedOrTold' /\ LookedOnce' /\ NothingEmptied'
     /\ SurfaceHasSource' /\ RecordIsTrue'
  BY <1>2, <1>3
  DEF CutIsForgotten, NothingEmptied, At, LookedOnce, WalkedOrTold, SurfaceHasSource, RecordIsTrue, SurfaceSays, OnSurface
<1>7. RecordingGoesOn'
  <2>1. SUFFICES ASSUME At("record")' PROVE RecordingGoesOn'
    BY DEF RecordingGoesOn
  <2>2. At("record") /\ run'.since = run.since \cup {s}
    BY <1>2, <2>1 DEF At
  <2>3. \A r \in Sections : IsUnderWay(r) => IsUnderWay(r)'
    BY <1>2, <1>3, <2>2 DEF IsUnderWay, OnSurface
  <2> QED BY <1>2, <1>3, <2>2, <2>3, CutIsOfFile DEF RecordingGoesOn
<1>8. SettledIsTrue'
  <2>1. SUFFICES ASSUME run'.phase \in {"left", "put"}, NEW f \in Cut',
                        f \notin WrittenSince' \cup KeptStale'
                 PROVE  SurfaceSays(f, run.look[f].says)'
    BY <1>2 DEF SettledIsTrue
  <2>2. f \in Cut /\ f \notin WrittenSince \cup KeptStale /\ run.phase \in {"left", "put"}
    BY <1>2, <2>1 DEF WrittenSince, KeptStale
  <2>3. SurfaceSays(f, run.look[f].says)
    BY <2>2 DEF SettledIsTrue
  <2> QED BY <1>2, <1>3, <2>3 DEF SurfaceSays, OnSurface
<1> QED
  BY <1>4, <1>5, <1>6, <1>7, <1>8

-----------------------------------------------------------------------------
(* Looking at the files.                                                   *)

\* Until it plans, an ingest records nothing and writes nothing.
LEMMA LookingKeepsRest ==
  ASSUME IngestInv, run.phase \in {"idle", "look", "read"},
         run' \in Run, run'.phase \in {"look", "read", "forget"}, run'.emptied = {},
         UNCHANGED <<disk, says, filed, byHand, record, untrue>>
  PROVE  /\ TypeOK' /\ TrustedIsUnchanged' /\ CutIsForgotten' /\ SurfaceHasSource'
         /\ NothingEmptied' /\ RecordingGoesOn' /\ SettledIsTrue' /\ RecordIsTrue'
<1>1. TypeOK' /\ TrustedIsUnchanged' /\ SurfaceHasSource' /\ RecordIsTrue'
  BY DEF IngestInv, TypeOK, TrustedIsUnchanged, SurfaceHasSource, RecordIsTrue, SurfaceSays,
         OnSurface
<1>2. CutIsForgotten' /\ NothingEmptied' /\ RecordingGoesOn' /\ SettledIsTrue'
  BY DEF NothingEmptied, CutIsForgotten, RecordingGoesOn, SettledIsTrue, At
<1> QED BY <1>1, <1>2

LEMMA BeginKeeps ==
  ASSUME IngestInv, NEW found \in SUBSET Files, NEW deleted \in SUBSET Files,
         NEW tree \in Tree, Begin(found, deleted, tree)
  PROVE  IngestInv'
<1> DEFINE phase == IF found = {} THEN "forget" ELSE "look"
           read == [f \in Files |-> IF f \in found THEN record[f] ELSE NoRecord]
<1>1. read \in [Files -> Record \cup {NoRecord}]
  BY DEF IngestInv, TypeOK
<1>2. phase \in {"forget", "look"} /\ (phase = "look" => found # {})
  OBVIOUS
<1>3. run' = Start(phase, found, deleted, tree) /\ UNCHANGED <<disk, says, filed, byHand, record, untrue>>
  BY DEF Begin, topics
<1>4. run' = [Idle EXCEPT !.phase = phase, !.todo = found, !.deleted = deleted, !.tree = tree,
                          !.read = read]
  BY <1>3 DEF Start
<1> HIDE DEF phase, read
<1>5. /\ run' \in Run /\ run'.phase = phase /\ run'.todo = found /\ run'.deleted = deleted
      /\ run'.tree = tree /\ run'.read = read /\ run'.look = [f \in Files |-> Unlooked]
      /\ run'.emptied = {}
  <2>1. Idle \in Run /\ Idle.look = [f \in Files |-> Unlooked] /\ Idle.emptied = {}
    BY IdleIsRun DEF Idle
  <2> QED BY <1>1, <1>2, <1>4, <2>1 DEF Run, Phases
<1>6. tree # "none" => deleted = {}
  BY IngestAssumption DEF IngestAssumption, Begin
<1>7. run.phase = "idle"
  BY DEF Begin, At
<1>8. /\ TypeOK' /\ TrustedIsUnchanged' /\ CutIsForgotten' /\ SurfaceHasSource'
      /\ NothingEmptied' /\ RecordingGoesOn' /\ SettledIsTrue' /\ RecordIsTrue'
  BY <1>2, <1>3, <1>5, <1>7, LookingKeepsRest
<1>9. ContentsAreOfFiles' /\ LookedOnce' /\ LooksAreTrue' /\ WalkedOrTold'
  BY <1>2, <1>3, <1>5, <1>6
  DEF IngestInv, ContentsAreOfFiles, LookedOnce, LooksAreTrue, WalkedOrTold, Unlooked
<1>10. ReadIsRecorded'
  BY <1>2, <1>3, <1>5 DEF ReadIsRecorded, Unlooked, read
<1> QED
  BY <1>8, <1>9, <1>10 DEF IngestInv

\* What a look at a file may come to.
LEMMA LookKeeps ==
  ASSUME IngestInv, run.phase \in {"look", "read"}, NEW f \in Files,
         NEW todo \in SUBSET run.todo, NEW phase \in {"look", "read", "forget"},
         NEW look \in Look,
         run' = [run EXCEPT !.todo = todo, !.phase = phase, !.look[f] = look],
         UNCHANGED <<disk, says, filed, byHand, record, untrue>>,
         phase \in {"look", "read"} => todo # {},
         f \in todo => look.how = "no",
         look.how \in {"cut", "refreshed"} =>
           disk[f] # NoFile /\ look.says = disk[f],
         look.how = "refreshed" => run.read[f] # NoRecord /\ run.read[f].says = disk[f]
  PROVE  IngestInv'
<1>1. /\ run' \in Run /\ run'.phase = phase /\ run'.todo = todo
      /\ run'.deleted = run.deleted /\ run'.tree = run.tree /\ run'.read = run.read
      /\ \A g \in Files : run'.look[g] = IF g = f THEN look ELSE run.look[g]
      /\ run'.emptied = {}
  <2>1. run \in Run /\ todo \in SUBSET Files /\ phase \in Phases /\ run.emptied = {}
    BY DEF IngestInv, TypeOK, Run, Phases, NothingEmptied, At
  <2> QED BY <2>1 DEF Run
<1>2. /\ TypeOK' /\ TrustedIsUnchanged' /\ CutIsForgotten' /\ SurfaceHasSource'
      /\ NothingEmptied' /\ RecordingGoesOn' /\ SettledIsTrue' /\ RecordIsTrue'
  BY <1>1, LookingKeepsRest
<1>3. ContentsAreOfFiles' /\ LookedOnce' /\ LooksAreTrue' /\ WalkedOrTold'
  BY <1>1
  DEF IngestInv, ContentsAreOfFiles, LookedOnce, LooksAreTrue, WalkedOrTold, TypeOK, Run
<1>4. ReadIsRecorded'
  BY <1>1 DEF IngestInv, ReadIsRecorded
<1> QED BY <1>2, <1>3, <1>4 DEF IngestInv

LEMMA LookedKeeps ==
  ASSUME IngestInv, run.phase \in {"look", "read"}, NEW f \in Files, f = Next1,
         NEW look \in Look, Looked(f, look),
         look.how \in {"cut", "refreshed"} =>
           disk[f] # NoFile /\ look.says = disk[f],
         look.how = "refreshed" => run.read[f] # NoRecord /\ run.read[f].says = disk[f]
  PROVE  IngestInv'
<1> DEFINE todo == run.todo \ {f}
           phase == IF run.todo = {f} THEN "forget" ELSE "look"
<1>1. f \in run.todo
  BY DEF IngestInv, LookedOnce, Next1
<1>2. /\ todo \in SUBSET run.todo /\ phase \in {"look", "read", "forget"} /\ f \notin todo
      /\ phase \in {"look", "read"} => todo # {}
  BY <1>1
<1>3. /\ run' = [run EXCEPT !.todo = todo, !.phase = phase, !.look[f] = look]
      /\ UNCHANGED <<disk, says, filed, byHand, record, untrue>>
  BY DEF Looked, topics
<1> HIDE DEF todo, phase
<1> QED BY <1>2, <1>3, LookKeeps

LEMMA LooksOfFiles ==
  ASSUME IngestInv, NEW f \in Files
  PROVE  /\ \A how \in How : [Unlooked EXCEPT !.how = how] \in Look
         /\ \A how \in How : [Unlooked EXCEPT !.how = how].how = how
         /\ run.look[f] \in Look /\ Unlooked \in Look
         /\ disk[f] \in Content \cup {NoFile}
BY DEF IngestInv, TypeOK, Run, Look, Unlooked, How, Stat

LEMMA UnreadableKeeps ==
  ASSUME IngestInv, run.phase \in {"look", "read"}, NEW f \in Files, f = Next1,
         NEW how \in {"unread", "unchanged"},
         Looked(f, [Unlooked EXCEPT !.how = how])
  PROVE  IngestInv'
<1> DEFINE look == [Unlooked EXCEPT !.how = how]
<1>1. look \in Look /\ look.how = how
  BY LooksOfFiles DEF How
<1>2. Looked(f, look)
  OBVIOUS
<1> HIDE DEF look
<1> QED BY <1>1, <1>2, LookedKeeps

LEMMA LookAtKeeps ==
  ASSUME IngestInv, NEW f \in Files, LookAt(f)
  PROVE  IngestInv'
<1>1. run.phase = "look" /\ f = Next1
  BY DEF LookAt, At
<1>2. f \in run.todo
  BY <1>1 DEF IngestInv, LookedOnce, Next1
<1>3. CASE Unreadable(f)
  BY <1>1, <1>3, UnreadableKeeps DEF Unreadable
<1>4. CASE Looked(f, [Unlooked EXCEPT !.how = "unchanged"])
  BY <1>1, <1>4, UnreadableKeeps
<1>5. ASSUME NEW stat \in {"settled", "racy"},
             run' = [run EXCEPT !.phase = "read", !.look[f].stat = stat],
             UNCHANGED <<disk, topics, record, untrue>>
      PROVE  IngestInv'
  <2> DEFINE look == [run.look[f] EXCEPT !.stat = stat]
             todo == run.todo
             phase == "read"
  <2>1. look \in Look /\ look.how = "no"
    BY <1>2, LooksOfFiles DEF IngestInv, LookedOnce, Look, Stat
  <2>2. run' = [run EXCEPT !.todo = todo, !.phase = phase, !.look[f] = look]
    <3>1. run \in Run /\ run.look \in [Files -> Look]
      BY DEF IngestInv, TypeOK, Run
    <3>2. [run.look EXCEPT ![f].stat = stat] = [run.look EXCEPT ![f] = look]
      BY <3>1 DEF Look
    <3> QED BY <1>5, <3>1, <3>2 DEF Run
  <2>3. UNCHANGED <<disk, says, filed, byHand, record, untrue>>
    BY <1>5 DEF topics
  <2>4. todo \in SUBSET run.todo /\ todo # {} /\ phase \in {"look", "read", "forget"}
    BY <1>2
  <2> HIDE DEF look, todo, phase
  <2> QED BY <1>1, <2>1, <2>2, <2>3, <2>4, LookKeeps
<1> QED
  BY <1>3, <1>4, <1>5 DEF LookAt

LEMMA ReadFileKeeps ==
  ASSUME IngestInv, NEW f \in Files, ReadFile(f)
  PROVE  IngestInv'
<1>1. run.phase = "read" /\ f = Next1
  BY DEF ReadFile, At
<1>2. CASE Unreadable(f)
  BY <1>1, <1>2, UnreadableKeeps DEF Unreadable
<1> DEFINE known == run.read[f] # NoRecord /\ run.read[f].says = disk[f]
           look == [how |-> IF known THEN "refreshed" ELSE "cut",
                    stat |-> run.look[f].stat, says |-> disk[f]]
<1>3. CASE disk[f] # NoFile /\ Looked(f, look)
  <2>1. look \in Look /\ look.says = disk[f] /\ (look.how = "refreshed" => known)
    BY LooksOfFiles DEF Look, How
  <2>2. Looked(f, look)
    BY <1>3
  <2> HIDE DEF look
  <2> QED BY <1>1, <1>3, <2>1, <2>2, LookedKeeps
<1> QED
  BY <1>2, <1>3 DEF ReadFile

-----------------------------------------------------------------------------
(* Forgetting what is read, and planning.                                  *)

LEMMA ForgetReadKeeps ==
  ASSUME IngestInv, ForgetRead
  PROVE  IngestInv'
<1> USE DEF IngestInv
<1>1. /\ run.phase = "forget" /\ run' = [run EXCEPT !.phase = "plan"]
      /\ record' = Forgetting(Read) /\ untrue' = untrue \ Read
      /\ UNCHANGED <<disk, says, filed, byHand>>
  BY DEF ForgetRead, At, topics
<1>2. /\ run' \in Run /\ run'.phase = "plan" /\ run'.todo = run.todo
      /\ run'.deleted = run.deleted /\ run'.tree = run.tree /\ run'.read = run.read
      /\ run'.look = run.look /\ run'.emptied = run.emptied
  BY <1>1 DEF TypeOK, Run, Phases
<1>3. /\ record' \in [Files -> Record \cup {NoRecord}]
      /\ \A f \in Files : record'[f] = IF f \in Read THEN NoRecord ELSE record[f]
      /\ Cut \subseteq Read /\ Cut' = Cut
  BY <1>1, <1>2 DEF Forgetting, TypeOK, Read, Cut
<1>4. TypeOK'
  BY <1>1, <1>2, <1>3 DEF TypeOK
<1>5. /\ ContentsAreOfFiles' /\ LookedOnce' /\ LooksAreTrue' /\ TrustedIsUnchanged'
      /\ ReadIsRecorded' /\ CutIsForgotten' /\ WalkedOrTold'
  BY <1>1, <1>2, <1>3
  DEF ContentsAreOfFiles, LookedOnce, LooksAreTrue, TrustedIsUnchanged, trusted,
      ReadIsRecorded, CutIsForgotten, WalkedOrTold, Cut
<1>6. SurfaceHasSource' /\ RecordIsTrue'
  BY <1>1, <1>3 DEF SurfaceHasSource, RecordIsTrue, SurfaceSays, OnSurface
<1>7. RecordingGoesOn' /\ SettledIsTrue' /\ NothingEmptied'
  BY <1>1, <1>2 DEF RecordingGoesOn, SettledIsTrue, NothingEmptied, At
<1> QED BY <1>4, <1>5, <1>6, <1>7

\* Every section on the surface of a file that is read is in play, and cut again or gone.
LEMMA PlanIsComplete ==
  ASSUME IngestInv
  PROVE  /\ InPlay \subseteq Sections /\ Gone \subseteq InPlay \ CutSections
         /\ Retirable \subseteq Gone
         /\ \A s \in Sections : Of[s] \in Cut /\ OnSurface(s) =>
              s \in byHand \cup (InPlay \cap CutSections) \cup Gone
         /\ \A s \in Retirable :
              Of[s] \in Read \/ disk[Of[s]] = NoFile
<1> USE DEF IngestInv
<1>1. InPlay \subseteq Sections /\ Gone \subseteq InPlay \ CutSections /\ Retirable \subseteq Gone
  BY DEF InPlay, FileTopics, TypeOK, Gone, Retirable
<1>2. ASSUME NEW s \in Sections, Of[s] \in Cut, OnSurface(s), s \notin byHand
      PROVE  s \in (InPlay \cap CutSections) \cup Gone
  <2>1. s \in filed /\ Of[s] \in Read /\ Of[s] \notin Kept
    BY <1>2 DEF SurfaceHasSource, Read, Kept, Cut
  <2>2. s \in InPlay
    BY <1>2, <2>1 DEF InPlay, FileTopics
  <2> QED BY <2>1, <2>2 DEF Gone
<1>3. \A s \in Retirable : Of[s] \in Read \/ disk[Of[s]] = NoFile
  BY DEF Retirable
<1> QED BY <1>1, <1>2, <1>3

LEMMA PlanKeeps ==
  ASSUME IngestInv, Plan
  PROVE  IngestInv'
<1> USE DEF IngestInv
<1> DEFINE nothing == CutSections = {} /\ Retirable = {}
           gone == IF nothing THEN {} ELSE Gone
           unsettled == IF nothing THEN {Of[s] : s \in Gone} ELSE {}
           read == [f \in Files |-> NoRecord]
           new == CutSections \ InPlay
<1>1. /\ run.phase = "plan" /\ UNCHANGED <<disk, says, filed, byHand, record, untrue>>
      /\ run' = [run EXCEPT
           !.phase = "record", !.read = read, !.known = InPlay, !.seen = InPlay,
           !.gone = gone, !.retirable = Retirable, !.new = new, !.rest = CutSections,
           !.left = Left, !.unsettled = unsettled]
  BY DEF Plan, At, topics
<1>2. /\ InPlay \subseteq Sections /\ Gone \subseteq InPlay \ CutSections
      /\ Retirable \subseteq Gone /\ CutSections \subseteq Sections
      /\ \A s \in CutSections : Of[s] \in Cut /\ s \in DOMAIN run.look[Of[s]].says
  BY PlanIsComplete, CutIsOfFile
<1>3. /\ gone \subseteq Gone /\ unsettled \subseteq Files /\ new \subseteq CutSections
      /\ read \in [Files -> Record \cup {NoRecord}] /\ Left \subseteq Files
      /\ \A f \in Files : read[f] = NoRecord
      /\ \A s \in Gone : s \in gone \/ Of[s] \in unsettled
  BY <1>2, WhatIsAssumed DEF Left
<1> HIDE DEF nothing, gone, unsettled, read, new
<1>4. /\ run' \in Run /\ run'.phase = "record" /\ run'.read = read /\ run'.known = InPlay
      /\ run'.gone = gone /\ run'.retirable = Retirable /\ run'.new = new
      /\ run'.rest = CutSections /\ run'.unsettled = unsettled /\ run'.todo = run.todo
      /\ run'.deleted = run.deleted /\ run'.tree = run.tree /\ run'.look = run.look
      /\ run'.emptied = run.emptied /\ run'.since = run.since
  BY <1>1, <1>2, <1>3 DEF TypeOK, Run, Phases
<1>5. /\ Cut' = Cut /\ CutSections' = CutSections
      /\ \A s \in Sections : TextOf(s)' = TextOf(s)
  BY <1>4 DEF Cut, CutSections, TextOf
<1>6. TypeOK'
  BY <1>1, <1>4 DEF TypeOK
<1>7. /\ ContentsAreOfFiles' /\ LookedOnce' /\ LooksAreTrue' /\ TrustedIsUnchanged'
      /\ ReadIsRecorded' /\ CutIsForgotten' /\ WalkedOrTold'
  BY <1>1, <1>3, <1>4, <1>5
  DEF ContentsAreOfFiles, LookedOnce, LooksAreTrue, TrustedIsUnchanged,
      ReadIsRecorded, CutIsForgotten, WalkedOrTold
<1>8. SurfaceHasSource' /\ RecordIsTrue' /\ SettledIsTrue' /\ NothingEmptied'
  BY <1>1, <1>4
  DEF NothingEmptied, At, SurfaceHasSource, RecordIsTrue, SurfaceSays, OnSurface, SettledIsTrue
<1>9. RecordingGoesOn'
  <2>1. ASSUME NEW s \in run'.retirable, trusted(record'[Of[s]])
        PROVE  Of[s] \in run'.deleted
    <3>1. s \in Retirable /\ Of[s] \in Files
      BY <1>2, <1>4, <2>1, WhatIsAssumed
    <3>2. Of[s] \notin Cut /\ disk[Of[s]] # NoFile
      <4>1. record[Of[s]] # NoRecord /\ record[Of[s]].says = disk[Of[s]]
        BY <1>1, <2>1, <3>1 DEF trusted, TrustedIsUnchanged
      <4>2. record[Of[s]].says \in Content
        BY <3>1, <4>1, WhatIsAssumed DEF ContentsAreOfFiles
      <4> QED BY <1>1, <3>1, <4>1, <4>2, WhatIsAssumed DEF CutIsForgotten
    <3> QED BY <1>4, <3>1, <3>2, PlanIsComplete DEF Read
  <2>2. ASSUME NEW s \in Sections, Of[s] \in Cut
        PROVE  IsUnderWay(s)'
    <3>1. OnSurface(s) => s \in byHand \cup (InPlay \cap CutSections) \cup Gone
      BY <2>2, PlanIsComplete
    <3>2. OnSurface(s)' <=> OnSurface(s)
      BY <1>1 DEF OnSurface
    <3> QED
      BY <1>1, <1>2, <1>3, <1>4, <1>5, <3>1, <3>2 DEF IsUnderWay
  <2>3. run.emptied = {}
    BY <1>1 DEF NothingEmptied, At
  <2> QED
    BY <1>2, <1>3, <1>4, <1>5, <2>1, <2>2, <2>3 DEF RecordingGoesOn
<1> QED BY <1>6, <1>7, <1>8, <1>9

-----------------------------------------------------------------------------
(* Recording the sections.                                                 *)

\* A statement that puts sections of files read on the surface, or takes some off that no
\* record that is said to be true counts, keeps the invariant if what it leaves undone of
\* those files is still under way.
LEMMA RecordingKeeps ==
  ASSUME IngestInv, At("record"), run' \in Run, run'.phase = "record",
         run'.todo = run.todo, run'.look = run.look, run'.read = run.read,
         run'.deleted = run.deleted, run'.tree = run.tree, run'.retirable = run.retirable,
         says' \in [Sections -> Texts \cup {Never, Off}],
         filed' \in SUBSET Sections, untrue' \in SUBSET Files, untrue \subseteq untrue',
         UNCHANGED <<disk, byHand, record>>,
         run'.new \subseteq run'.rest, run'.rest \subseteq run.rest, run'.gone \subseteq run.gone,
         run'.emptied \subseteq {s \in CutSections : TextOf(s) \in Thin},
         SurfaceHasSource',
         \A s \in Sections : Of[s] \in Cut => IsUnderWay(s)',
         \A s \in Sections : says'[s] # says[s] /\ Of[s] \notin Cut =>
           ~OnSurface(s)' /\ Disowned(s) \subseteq untrue'
  PROVE  IngestInv'
<1> USE DEF IngestInv
<1>1. /\ Cut' = Cut /\ CutSections' = CutSections
      /\ \A s \in CutSections : TextOf(s)' = TextOf(s)
  BY CutIsOfFile DEF Cut, CutSections, TextOf
<1>2. TypeOK'
  BY DEF TypeOK
<1>3. /\ ContentsAreOfFiles' /\ LookedOnce' /\ LooksAreTrue' /\ TrustedIsUnchanged'
      /\ ReadIsRecorded' /\ CutIsForgotten' /\ WalkedOrTold'
  BY <1>1
  DEF ContentsAreOfFiles, LookedOnce, LooksAreTrue, TrustedIsUnchanged,
      ReadIsRecorded, CutIsForgotten, WalkedOrTold, At
<1>4. NothingEmptied' /\ SettledIsTrue'
  BY DEF NothingEmptied, SettledIsTrue, At
<1>5. RecordingGoesOn'
  BY <1>1 DEF RecordingGoesOn
<1>6. RecordIsTrue'
  <2>1. SUFFICES ASSUME NEW f \in Files \ untrue', record[f] # NoRecord
                 PROVE  SurfaceSays(f, record[f].says)'
    BY DEF RecordIsTrue
  <2>2. f \notin Cut /\ f \notin untrue /\ SurfaceSays(f, record[f].says)
    BY <2>1 DEF RecordIsTrue, CutIsForgotten, At
  <2>3. \A s \in SectionsOf(f) : says'[s] # says[s] =>
          ~OnSurface(s)' /\ s \notin DOMAIN record[f].says
    BY <2>1, <2>2 DEF SectionsOf, Disowned, Recorded
  <2> QED
    BY <2>2, <2>3 DEF SurfaceSays, OnSurface, SectionsOf
<1> QED BY <1>2, <1>3, <1>4, <1>5, <1>6

LEMMA RenameKeeps ==
  ASSUME IngestInv, NEW from \in Sections, NEW to \in Sections, Rename(from, to)
  PROVE  IngestInv'
<1> USE DEF IngestInv
<1>1. /\ At("record") /\ Pair(from, to) /\ run.phase = "record"
      /\ UNCHANGED <<disk, byHand, record>>
  BY DEF Rename, At
<1>2. /\ from \in run.gone /\ from \notin CutSections /\ to \in run.new /\ to \in CutSections
      /\ OnSurface(from) /\ from # to /\ Of[to] \in Cut
      /\ to \in run.rest /\ run.new \subseteq run.rest
  BY <1>1, CutIsOfFile DEF Pair, Losable, RecordingGoesOn
<1> DEFINE gone == run.gone \ {from}
           new == run.new \ {to}
<1>3. CASE /\ says' = [says EXCEPT ![to] = says[from], ![from] = Never]
           /\ filed' = (filed \ {from}) \cup {to}
           /\ run' = [run EXCEPT !.gone = gone, !.new = new]
           /\ untrue' = untrue \cup Disowned(from)
  <2>1. /\ run' \in Run /\ run'.phase = "record"
        /\ run'.todo = run.todo /\ run'.look = run.look /\ run'.read = run.read
        /\ run'.deleted = run.deleted /\ run'.tree = run.tree
        /\ run'.retirable = run.retirable
        /\ run'.new = new /\ run'.rest = run.rest /\ run'.gone = gone
        /\ run'.emptied = run.emptied /\ run'.known = run.known /\ run'.since = run.since
        /\ run'.stale = run.stale
        /\ run'.unsettled = run.unsettled
    BY <1>1, <1>3 DEF TypeOK, Run
  <2>2. /\ says' \in [Sections -> Texts \cup {Never, Off}]
        /\ \A s \in Sections : says'[s] = IF s = from THEN Never
                                          ELSE IF s = to THEN says[from] ELSE says[s]
        /\ filed' \in SUBSET Sections /\ untrue' \in SUBSET Files /\ untrue \subseteq untrue'
        /\ Disowned(from) \subseteq untrue'
    BY <1>2, <1>3, WhatIsAssumed DEF TypeOK, Disowned
  <2>3. SurfaceHasSource'
    BY <1>1, <1>2, <1>3, <2>2, WhatIsAssumed DEF SurfaceHasSource, OnSurface
  <2>4. /\ CutSections' = CutSections
        /\ \A s \in CutSections : TextOf(s)' = TextOf(s)
    BY <2>1, CutIsOfFile DEF Cut, CutSections, TextOf
  <2>5. ASSUME NEW s \in Sections, Of[s] \in Cut PROVE IsUnderWay(s)'
    <3>1. IsUnderWay(s)
      BY <1>1, <2>5 DEF RecordingGoesOn
    <3> QED
      BY <1>1, <1>2, <2>1, <2>2, <2>4, <3>1, WhatIsAssumed DEF IsUnderWay, OnSurface
  <2>6. \A s \in Sections : says'[s] # says[s] /\ Of[s] \notin Cut =>
          ~OnSurface(s)' /\ Disowned(s) \subseteq untrue'
    BY <1>2, <2>2, WhatIsAssumed DEF OnSurface
  <2>7. /\ run'.new \subseteq run'.rest
        /\ run'.emptied \subseteq {s \in CutSections : TextOf(s) \in Thin}
    BY <1>1, <1>2, <2>1 DEF RecordingGoesOn
  <2> HIDE DEF IngestInv
  <2> QED
    BY <1>1, <2>1, <2>2, <2>3, <2>5, <2>6, <2>7, RecordingKeeps
<1>4. CASE run' = [run EXCEPT !.new = new] /\ UNCHANGED <<says, filed, untrue>>
  <2>1. /\ run' \in Run /\ run'.phase = "record"
        /\ run'.todo = run.todo /\ run'.look = run.look /\ run'.read = run.read
        /\ run'.deleted = run.deleted /\ run'.tree = run.tree
        /\ run'.retirable = run.retirable
        /\ run'.new = new /\ run'.rest = run.rest /\ run'.gone = run.gone
        /\ run'.emptied = run.emptied /\ run'.known = run.known /\ run'.since = run.since
        /\ run'.stale = run.stale
        /\ run'.unsettled = run.unsettled
    BY <1>1, <1>4 DEF TypeOK, Run
  <2>2. SurfaceHasSource'
    BY <1>1, <1>4 DEF SurfaceHasSource, OnSurface
  <2>3. /\ CutSections' = CutSections
        /\ \A s \in CutSections : TextOf(s)' = TextOf(s)
    BY <2>1, CutIsOfFile DEF Cut, CutSections, TextOf
  <2>4. ASSUME NEW s \in Sections, Of[s] \in Cut PROVE IsUnderWay(s)'
    <3>1. IsUnderWay(s)
      BY <1>1, <2>4 DEF RecordingGoesOn
    <3> QED BY <1>1, <1>4, <2>1, <2>3, <3>1 DEF IsUnderWay, OnSurface
  <2>5. /\ run'.new \subseteq run'.rest
        /\ run'.emptied \subseteq {s \in CutSections : TextOf(s) \in Thin}
    BY <1>1, <1>2, <2>1 DEF RecordingGoesOn
  <2>6. /\ says' \in [Sections -> Texts \cup {Never, Off}]
        /\ filed' \in SUBSET Sections /\ untrue' \in SUBSET Files /\ untrue \subseteq untrue'
        /\ \A s \in Sections : says'[s] = says[s]
    BY <1>4 DEF TypeOK
  <2> HIDE DEF IngestInv
  <2> QED
    BY <1>1, <2>1, <2>2, <2>4, <2>5, <2>6, RecordingKeeps
<1> QED
  BY <1>3, <1>4 DEF Rename

LEMMA RememberKeeps ==
  ASSUME IngestInv, NEW s \in Sections, Remember(s)
  PROVE  IngestInv'
<1> USE DEF IngestInv
<1> DEFINE text == TextOf(s)
           held == text \in Thin
           same == text = says[s]
           rest == run.rest \ {s}
           seen == IF held \/ same THEN run.seen ELSE run.seen \ {s}
           stays == held /\ OnSurface(s)
           emptied == IF stays /\ s \in run.known THEN run.emptied \cup {s} ELSE run.emptied
           keeps == IF stays /\ s \notin run.known \cup byHand THEN run.stale \cup {s}
                    ELSE run.stale
<1>1. /\ At("record") /\ run.phase = "record" /\ s \in run.rest
      /\ UNCHANGED <<disk, byHand, record, untrue>>
      /\ says' = [says EXCEPT ![s] = IF held THEN @ ELSE text]
      /\ filed' = IF same THEN filed ELSE filed \cup {s}
      /\ run' = [run EXCEPT !.rest = rest, !.new = {}, !.seen = seen, !.emptied = emptied,
                            !.stale = keeps]
  BY DEF Remember, At
<1>2. s \in CutSections /\ Of[s] \in Cut /\ text \in Texts
  BY <1>1, CutIsOfFile DEF RecordingGoesOn
<1>3. /\ rest \subseteq Sections /\ seen \subseteq Sections /\ emptied \subseteq Sections
      /\ keeps \subseteq Sections /\ rest \subseteq run.rest
  BY <1>1 DEF TypeOK, Run
<1>4. emptied \subseteq {r \in CutSections : TextOf(r) \in Thin}
  BY <1>1, <1>2 DEF RecordingGoesOn
<1>5. \A r \in Sections : says'[r] = IF r = s /\ ~held THEN text ELSE says[r]
  BY <1>1 DEF TypeOK
<1>6. /\ says' \in [Sections -> Texts \cup {Never, Off}]
      /\ filed' \in SUBSET Sections /\ untrue' \in SUBSET Files /\ untrue \subseteq untrue'
  BY <1>1, <1>2 DEF TypeOK
<1>7. SurfaceHasSource'
  BY <1>1, <1>5 DEF SurfaceHasSource, OnSurface
<1>8. OnSurface(s) /\ held => s \in byHand \cup emptied \cup keeps
  OBVIOUS
<1>9. run.emptied \subseteq emptied /\ run.stale \subseteq keeps
  OBVIOUS
<1> HIDE DEF seen, emptied, keeps
<1>10. /\ run' \in Run /\ run'.phase = "record"
       /\ run'.todo = run.todo /\ run'.look = run.look /\ run'.read = run.read
       /\ run'.deleted = run.deleted /\ run'.tree = run.tree
       /\ run'.retirable = run.retirable
       /\ run'.new = {} /\ run'.rest = rest /\ run'.gone = run.gone
       /\ run'.emptied = emptied /\ run'.known = run.known /\ run'.since = run.since
       /\ run'.stale = keeps
       /\ run'.unsettled = run.unsettled
  BY <1>1, <1>3 DEF TypeOK, Run
<1>11. /\ CutSections' = CutSections
       /\ \A r \in CutSections : TextOf(r)' = TextOf(r)
  BY <1>10, CutIsOfFile DEF Cut, CutSections, TextOf
<1>12. ASSUME NEW r \in Sections, Of[r] \in Cut PROVE IsUnderWay(r)'
  <2>1. IsUnderWay(r)
    BY <1>1, <1>12 DEF RecordingGoesOn
  <2>2. CASE r = s
    BY <1>1, <1>2, <1>5, <1>8, <1>9, <1>10, <1>11, <2>1, <2>2 DEF IsUnderWay, OnSurface
  <2>3. CASE r # s
    BY <1>1, <1>5, <1>9, <1>10, <1>11, <2>1, <2>3 DEF IsUnderWay, OnSurface
  <2> QED BY <2>2, <2>3
<1>13. \A r \in Sections : says'[r] # says[r] => Of[r] \in Cut
  BY <1>2, <1>5
<1> HIDE DEF IngestInv, text, held, same, rest
<1>14. run'.rest \subseteq run.rest /\ run'.new \subseteq run'.rest /\ run'.gone \subseteq run.gone
       /\ run'.emptied \subseteq {r \in CutSections : TextOf(r) \in Thin}
  BY <1>3, <1>4, <1>10
<1> QED
  BY <1>1, <1>6, <1>7, <1>10, <1>12, <1>13, <1>14, RecordingKeeps

\* What a section that is retired, or should have been, leaves: it is off the surface, or
\* somebody's, or its file is not settled.
LEMMA RetireSays ==
  ASSUME IngestInv, NEW s \in Sections, Retire(s)
  PROVE  /\ says' \in [Sections -> Texts \cup {Never, Off}]
         /\ \A r \in Sections \ {s} : says'[r] = says[r]
         /\ says'[s] = IF s \in run.seen \ byHand THEN Off ELSE says[s]
         /\ untrue' \in SUBSET Files /\ untrue \subseteq untrue'
         /\ s \in run.seen \ byHand => Disowned(s) \subseteq untrue'
         /\ UNCHANGED <<disk, filed, byHand, record>>
         /\ SurfaceHasSource'
<1>1. /\ says' = [says EXCEPT ![s] = IF s \in run.seen \ byHand THEN Off ELSE @]
      /\ untrue' = IF s \in run.seen \ byHand THEN untrue \cup Disowned(s) ELSE untrue
      /\ UNCHANGED <<disk, filed, byHand, record>>
  BY DEF Retire
<1>2. /\ says' \in [Sections -> Texts \cup {Never, Off}]
      /\ \A r \in Sections \ {s} : says'[r] = says[r]
      /\ says'[s] = IF s \in run.seen \ byHand THEN Off ELSE says[s]
      /\ untrue' \in SUBSET Files /\ untrue \subseteq untrue'
  BY <1>1 DEF IngestInv, TypeOK, Disowned
<1>3. SurfaceHasSource'
  BY <1>1, <1>2, WhatIsAssumed DEF IngestInv, SurfaceHasSource, OnSurface
<1> QED BY <1>1, <1>2, <1>3

LEMMA RetireGoneKeeps ==
  ASSUME IngestInv, NEW s \in Sections, RetireGone(s)
  PROVE  IngestInv'
<1> USE DEF IngestInv
<1> DEFINE gone == run.gone \ {s}
<1>1. At("record") /\ run.phase = "record" /\ s \in run.gone /\ s \notin CutSections
  BY DEF RetireGone, At, RecordingGoesOn
<1>2. PICK unsettled :
        /\ run' = [run EXCEPT !.gone = gone, !.unsettled = unsettled]
        /\ unsettled \in SUBSET Files /\ run.unsettled \subseteq unsettled
        /\ \/ /\ Retire(s)
              /\ s \in run.seen \ byHand \/ Unsettles(s) \subseteq unsettled
           \/ /\ Of[s] \in unsettled
              /\ UNCHANGED <<disk, says, filed, byHand, record, untrue>>
  <2>1. CASE s \in run.retirable
    <3> DEFINE unsettled == IF s \in run.seen \ byHand THEN run.unsettled
                            ELSE run.unsettled \cup Unsettles(s)
    <3>1. /\ Retire(s) /\ run' = [run EXCEPT !.gone = gone, !.unsettled = unsettled]
      BY <2>1 DEF RetireGone
    <3>2. unsettled \in SUBSET Files
      BY WhatIsAssumed DEF Unsettles, TypeOK, Run
    <3> QED BY <3>1, <3>2
  <2>2. CASE s \notin run.retirable
    <3> DEFINE unsettled == run.unsettled \cup {Of[s]}
    <3>1. /\ run' = [run EXCEPT !.gone = gone, !.unsettled = unsettled]
          /\ UNCHANGED <<disk, says, filed, byHand, record, untrue>>
      BY <2>2 DEF RetireGone, topics
    <3>2. unsettled \in SUBSET Files
      BY WhatIsAssumed DEF TypeOK, Run
    <3> QED BY <3>1, <3>2
  <2> QED BY <2>1, <2>2
<1>3. /\ run' \in Run /\ run'.phase = "record"
      /\ run'.todo = run.todo /\ run'.look = run.look /\ run'.read = run.read
      /\ run'.deleted = run.deleted /\ run'.tree = run.tree
      /\ run'.retirable = run.retirable
      /\ run'.new = run.new /\ run'.rest = run.rest /\ run'.gone = gone
      /\ run'.emptied = run.emptied /\ run'.known = run.known /\ run'.since = run.since
      /\ run'.stale = run.stale
      /\ run'.unsettled = unsettled
  BY <1>1, <1>2 DEF TypeOK, Run
<1>4. /\ says' \in [Sections -> Texts \cup {Never, Off}]
      /\ \A r \in Sections \ {s} : says'[r] = says[r]
      /\ says'[s] # says[s] => says'[s] = Off /\ Disowned(s) \subseteq untrue'
      /\ filed' \in SUBSET Sections /\ untrue' \in SUBSET Files /\ untrue \subseteq untrue'
      /\ UNCHANGED <<disk, filed, byHand, record>>
      /\ SurfaceHasSource'
      /\ says'[s] \in Texts => s \in byHand \/ Of[s] \in unsettled
  <2>1. CASE Retire(s) /\ (s \in run.seen \ byHand \/ Unsettles(s) \subseteq unsettled)
    BY <2>1, RetireSays, WhatIsAssumed DEF Unsettles, OnSurface, TypeOK
  <2>2. CASE Of[s] \in unsettled /\ UNCHANGED <<disk, says, filed, byHand, record, untrue>>
    BY <2>2 DEF TypeOK, SurfaceHasSource, OnSurface
  <2> QED BY <1>2, <2>1, <2>2
<1>5. /\ CutSections' = CutSections
      /\ \A r \in CutSections : TextOf(r)' = TextOf(r)
  BY <1>3, CutIsOfFile DEF Cut, CutSections, TextOf
<1>6. ASSUME NEW r \in Sections, Of[r] \in Cut PROVE IsUnderWay(r)'
  <2>1. IsUnderWay(r)
    BY <1>1, <1>6 DEF RecordingGoesOn
  <2>2. CASE r = s
    BY <1>1, <1>3, <1>4, <1>5, <2>2 DEF IsUnderWay, OnSurface
  <2>3. CASE r # s
    BY <1>2, <1>3, <1>4, <1>5, <2>1, <2>3 DEF IsUnderWay, OnSurface
  <2> QED BY <2>2, <2>3
<1>7. \A r \in Sections : says'[r] # says[r] =>
        ~OnSurface(r)' /\ Disowned(r) \subseteq untrue'
  BY <1>4, WhatIsAssumed DEF OnSurface
<1>8. /\ run'.rest \subseteq run.rest /\ run'.new \subseteq run'.rest
      /\ run'.gone \subseteq run.gone
      /\ run'.emptied \subseteq {r \in CutSections : TextOf(r) \in Thin}
  BY <1>1, <1>3 DEF RecordingGoesOn
<1> HIDE DEF IngestInv, gone
<1> QED
  BY <1>1, <1>3, <1>4, <1>6, <1>7, <1>8, RecordingKeeps

LEMMA RetireEmptiedKeeps ==
  ASSUME IngestInv, NEW s \in Sections, RetireEmptied(s)
  PROVE  IngestInv'
<1> USE DEF IngestInv
<1> DEFINE emptied == run.emptied \ {s}
           unsettled == IF s \in run.seen THEN run.unsettled
                        ELSE run.unsettled \cup Unsettles(s)
<1>1. /\ At("record") /\ run.phase = "record" /\ s \in CutSections /\ TextOf(s) \in Thin
      /\ Retire(s) /\ Of[s] \in Cut
  BY CutIsOfFile DEF RetireEmptied, At, RecordingGoesOn
<1>2. /\ run' = [run EXCEPT !.emptied = emptied, !.unsettled = unsettled]
      /\ unsettled \in SUBSET Files /\ run.unsettled \subseteq unsettled
  BY WhatIsAssumed DEF RetireEmptied, Unsettles, TypeOK, Run
<1>3. /\ says' \in [Sections -> Texts \cup {Never, Off}]
      /\ \A r \in Sections \ {s} : says'[r] = says[r]
      /\ says'[s] = IF s \in run.seen \ byHand THEN Off ELSE says[s]
      /\ filed' \in SUBSET Sections /\ untrue' \in SUBSET Files /\ untrue \subseteq untrue'
      /\ UNCHANGED <<disk, filed, byHand, record>>
      /\ SurfaceHasSource'
  BY <1>1, RetireSays DEF TypeOK
<1>4. says'[s] \in Texts => s \in byHand \/ Of[s] \in unsettled
  BY <1>3, WhatIsAssumed DEF Unsettles, OnSurface
<1> HIDE DEF unsettled
<1>5. /\ run' \in Run /\ run'.phase = "record"
      /\ run'.todo = run.todo /\ run'.look = run.look /\ run'.read = run.read
      /\ run'.deleted = run.deleted /\ run'.tree = run.tree
      /\ run'.retirable = run.retirable
      /\ run'.new = run.new /\ run'.rest = run.rest /\ run'.gone = run.gone
      /\ run'.emptied = emptied /\ run'.known = run.known /\ run'.since = run.since
      /\ run'.stale = run.stale
      /\ run'.unsettled = unsettled
  BY <1>1, <1>2 DEF TypeOK, Run
<1>6. /\ CutSections' = CutSections
      /\ \A r \in CutSections : TextOf(r)' = TextOf(r)
  BY <1>5, CutIsOfFile DEF Cut, CutSections, TextOf
<1>7. ASSUME NEW r \in Sections, Of[r] \in Cut PROVE IsUnderWay(r)'
  <2>1. IsUnderWay(r)
    BY <1>1, <1>7 DEF RecordingGoesOn
  <2>2. CASE r = s
    BY <1>1, <1>3, <1>4, <1>5, <1>6, <2>2 DEF IsUnderWay, OnSurface
  <2>3. CASE r # s
    BY <1>2, <1>3, <1>5, <1>6, <2>1, <2>3 DEF IsUnderWay, OnSurface
  <2> QED BY <2>2, <2>3
<1>8. \A r \in Sections : says'[r] # says[r] => Of[r] \in Cut
  BY <1>1, <1>3
<1>9. /\ run'.rest \subseteq run.rest /\ run'.new \subseteq run'.rest
      /\ run'.gone \subseteq run.gone
      /\ run'.emptied \subseteq {r \in CutSections : TextOf(r) \in Thin}
  BY <1>1, <1>5 DEF RecordingGoesOn
<1> HIDE DEF IngestInv, emptied
<1> QED
  BY <1>1, <1>3, <1>5, <1>7, <1>8, <1>9, RecordingKeeps

-----------------------------------------------------------------------------
(* The records, and the end.                                               *)

LEMMA CheckKeeps ==
  ASSUME IngestInv, Check
  PROVE  IngestInv'
<1> USE DEF IngestInv
<1> DEFINE left == (IF run.tree = "whole" THEN run.left ELSE {}) \cup run.deleted
           look == [f \in Files |-> IF f \in Settled \/ run.look[f].how = "refreshed"
                                    THEN run.look[f] ELSE Unlooked]
<1>1. /\ At("record") /\ run.phase = "record"
      /\ run.rest = {} /\ run.gone = {} /\ run.emptied = {}
      /\ UNCHANGED <<disk, says, filed, byHand, record, untrue>>
      /\ run' = [run EXCEPT
           !.phase = "left", !.tree = "none", !.deleted = {},
           !.known = {}, !.seen = {}, !.retirable = {}, !.new = {},
           !.left = left, !.look = look]
  BY DEF Check, At, topics
<1>2. left \subseteq Files /\ look \in [Files -> Look]
  BY LooksOfFiles DEF TypeOK, Run
<1>3. \A f \in Files : /\ look[f] = run.look[f] \/ look[f] = Unlooked
                       /\ look[f].how = "cut" => f \in Settled
  BY DEF Unlooked
<1> HIDE DEF left, look
<1>4. /\ run' \in Run /\ run'.phase = "left" /\ run'.todo = run.todo
      /\ run'.deleted = {} /\ run'.tree = "none" /\ run'.read = run.read
      /\ run'.look = look /\ run'.emptied = {} /\ run'.since = run.since
      /\ run'.stale = run.stale
  BY <1>1, <1>2 DEF TypeOK, Run, Phases, Tree
<1>5. TypeOK'
  BY <1>1, <1>4 DEF TypeOK
<1>6. /\ ContentsAreOfFiles' /\ LookedOnce' /\ LooksAreTrue' /\ TrustedIsUnchanged'
      /\ ReadIsRecorded' /\ CutIsForgotten' /\ WalkedOrTold' /\ NothingEmptied'
  <2>1. Unlooked.how = "no" /\ run.todo \subseteq Files
    BY DEF Unlooked, TypeOK, Run
  <2>2. ContentsAreOfFiles' /\ LooksAreTrue' /\ TrustedIsUnchanged'
    BY <1>1, <1>3, <1>4, <2>1
    DEF ContentsAreOfFiles, LooksAreTrue, TrustedIsUnchanged
  <2>3. ReadIsRecorded' /\ LookedOnce'
    BY <1>1, <1>3, <1>4, <2>1 DEF ReadIsRecorded, LookedOnce
  <2>4. CutIsForgotten' /\ WalkedOrTold' /\ NothingEmptied'
    BY <1>4 DEF CutIsForgotten, WalkedOrTold, NothingEmptied
  <2> QED BY <2>2, <2>3, <2>4
<1>7. SurfaceHasSource' /\ RecordIsTrue' /\ RecordingGoesOn'
  BY <1>1, <1>4
  DEF SurfaceHasSource, RecordIsTrue, SurfaceSays, OnSurface, RecordingGoesOn, At
<1>8. SettledIsTrue'
  <2>1. SUFFICES ASSUME NEW f \in Cut', f \notin WrittenSince' \cup KeptStale',
                        NEW s \in Sections, Of[s] = f
                 PROVE  IF s \in DOMAIN look[f].says /\ look[f].says[s] \notin Thin
                        THEN says[s] = look[f].says[s]
                        ELSE OnSurface(s) => s \in byHand
    BY <1>1, <1>4 DEF SettledIsTrue, SurfaceSays, SectionsOf, OnSurface
  <2>2. f \in Cut /\ f \in Files /\ f \notin run.unsettled /\ look[f] = run.look[f]
    BY <1>3, <1>4, <2>1 DEF Cut, Settled, Unlooked
  <2>3. s \notin run.stale /\ (s \in DOMAIN look[f].says => s \notin run.since)
    BY <1>4, <2>1 DEF WrittenSince, KeptStale, SectionsOf
  <2>4. IsUnderWay(s)
    BY <1>1, <2>1, <2>2 DEF RecordingGoesOn
  <2>5. s \in CutSections <=> s \in DOMAIN look[f].says
    BY <2>1, <2>2, CutIsOfFile
  <2>6. TextOf(s) = look[f].says[s]
    BY <2>1, <2>2 DEF TextOf
  <2> QED
    BY <1>1, <2>1, <2>2, <2>3, <2>4, <2>5, <2>6 DEF IsUnderWay
<1> QED BY <1>5, <1>6, <1>7, <1>8

\* What is forgotten is of nothing any more.
LEMMA ForgetLeftKeeps ==
  ASSUME IngestInv, ForgetLeft
  PROVE  IngestInv'
<1> USE DEF IngestInv
<1> DEFINE files == run.left \ run.unsettled
<1>1. /\ run.phase = "left" /\ record' = Forgetting(files) /\ untrue' = untrue \ files
      /\ run' = [run EXCEPT !.phase = "put", !.left = {}, !.unsettled = {}]
      /\ UNCHANGED <<disk, says, filed, byHand>>
  BY DEF ForgetLeft, At, topics
<1> HIDE DEF files
<1>2. /\ run' \in Run /\ run'.phase = "put" /\ run'.todo = run.todo
      /\ run'.deleted = run.deleted /\ run'.tree = run.tree /\ run'.read = run.read
      /\ run'.look = run.look /\ run'.emptied = run.emptied /\ run'.since = run.since
      /\ run'.stale = run.stale
  BY <1>1 DEF TypeOK, Run, Phases
<1>3. /\ record' \in [Files -> Record \cup {NoRecord}]
      /\ \A f \in Files : record'[f] = IF f \in files THEN NoRecord ELSE record[f]
      /\ Cut' = Cut /\ WrittenSince' = WrittenSince /\ KeptStale' = KeptStale
  BY <1>1, <1>2 DEF Forgetting, TypeOK, Cut, WrittenSince, KeptStale
<1>4. TypeOK'
  BY <1>1, <1>2, <1>3 DEF TypeOK
<1>5. /\ ContentsAreOfFiles' /\ LookedOnce' /\ LooksAreTrue' /\ TrustedIsUnchanged'
      /\ ReadIsRecorded' /\ CutIsForgotten' /\ WalkedOrTold' /\ NothingEmptied'
  BY <1>1, <1>2, <1>3
  DEF ContentsAreOfFiles, LookedOnce, LooksAreTrue, TrustedIsUnchanged, trusted,
      ReadIsRecorded, CutIsForgotten, WalkedOrTold, NothingEmptied, At
<1>6. SurfaceHasSource' /\ RecordIsTrue' /\ RecordingGoesOn'
  BY <1>1, <1>2, <1>3
  DEF SurfaceHasSource, RecordIsTrue, SurfaceSays, OnSurface, RecordingGoesOn, At
<1>7. SettledIsTrue'
  BY <1>1, <1>2, <1>3 DEF SettledIsTrue, SurfaceSays, OnSurface
<1> QED BY <1>4, <1>5, <1>6, <1>7

LEMMA PutRecordsKeeps ==
  ASSUME IngestInv, PutRecords
  PROVE  IngestInv'
<1> USE DEF IngestInv
<1> DEFINE refreshed == {f \in Files : run.look[f].how = "refreshed"}
           put == [f \in Files |->
                     IF f \in Cut \cup refreshed
                     THEN [says |-> run.look[f].says, stat |-> run.look[f].stat]
                     ELSE record[f]]
<1>1. /\ run.phase = "put" /\ record' = put
      /\ untrue' = (untrue \ Cut) \cup WrittenSince \cup KeptStale
                     \cup {f \in refreshed : record[f] = NoRecord}
      /\ run' = [run EXCEPT !.phase = "since"] /\ UNCHANGED <<disk, says, filed, byHand>>
  BY DEF PutRecords, At, topics
<1>2. /\ run' \in Run /\ run'.phase = "since" /\ run'.todo = run.todo
      /\ run'.deleted = run.deleted /\ run'.tree = run.tree /\ run'.read = run.read
      /\ run'.look = run.look /\ run'.emptied = run.emptied /\ run'.since = run.since
      /\ run'.stale = run.stale
  BY <1>1 DEF TypeOK, Run, Phases
<1>3. \A f \in Files : run.look[f] \in Look
  BY DEF TypeOK, Run
<1>4. \A f \in Cut \cup refreshed :
        /\ f \in Files /\ run.look[f].says \in Contents[f] /\ run.look[f].says \in Content
        /\ run.look[f].stat \in Stat
        /\ run.look[f].stat = "settled" => run.look[f].says = disk[f]
  BY <1>3, WhatIsAssumed DEF ContentsAreOfFiles, LooksAreTrue, Cut, Look
<1>5. /\ record' \in [Files -> Record \cup {NoRecord}]
      /\ \A f \in Cut \cup refreshed :
           record'[f].says = run.look[f].says /\ record'[f].stat = run.look[f].stat
      /\ \A f \in Files : f \notin Cut \cup refreshed => record'[f] = record[f]
  BY <1>1, <1>4 DEF TypeOK, Record
<1>6. /\ Cut \subseteq Files /\ WrittenSince \cup KeptStale \subseteq Cut /\ refreshed \subseteq Files
      /\ Cut \cap refreshed = {}
      /\ \A f \in Files : run.look[f].how = "refreshed" => f \in refreshed
  BY DEF Cut, WrittenSince, KeptStale
<1> HIDE DEF put
<1>7. TypeOK'
  BY <1>1, <1>2, <1>5, <1>6 DEF TypeOK
<1>8. ContentsAreOfFiles' /\ TrustedIsUnchanged'
  BY <1>1, <1>2, <1>4, <1>5
  DEF ContentsAreOfFiles, TrustedIsUnchanged, trusted
<1>9. /\ LookedOnce' /\ LooksAreTrue' /\ CutIsForgotten' /\ WalkedOrTold' /\ NothingEmptied'
      /\ SurfaceHasSource' /\ RecordingGoesOn' /\ SettledIsTrue'
  BY <1>1, <1>2
  DEF LookedOnce, LooksAreTrue, CutIsForgotten, WalkedOrTold, NothingEmptied, At,
      SurfaceHasSource, OnSurface, RecordingGoesOn, SettledIsTrue
<1>10. ReadIsRecorded'
  BY <1>1, <1>2, <1>5, <1>6 DEF ReadIsRecorded
<1>11. RecordIsTrue'
  <2>1. SUFFICES ASSUME NEW f \in Files \ untrue', record'[f] # NoRecord
                 PROVE  SurfaceSays(f, record'[f].says)
    BY <1>1 DEF RecordIsTrue, SurfaceSays, OnSurface
  <2>2. CASE f \in Cut
    BY <1>1, <1>5, <2>1, <2>2 DEF SettledIsTrue
  <2>3. CASE f \in refreshed
    <3>1. f \notin untrue /\ record[f] # NoRecord /\ record'[f].says = record[f].says
      BY <1>1, <1>5, <1>6, <2>1, <2>3 DEF ReadIsRecorded
    <3> QED BY <3>1, <2>1 DEF RecordIsTrue
  <2>4. CASE f \notin Cut \cup refreshed
    BY <1>1, <1>5, <2>1, <2>4 DEF RecordIsTrue
  <2> QED BY <2>2, <2>3, <2>4
<1> QED BY <1>7, <1>8, <1>9, <1>10, <1>11

\* An ingest that ends, done or not, leaves what it has recorded.
LEMMA EndKeeps ==
  ASSUME IngestInv, run' = Idle, UNCHANGED <<disk, says, filed, byHand>>,
         NEW files \in SUBSET Files, record' = Forgetting(files),
         untrue' = untrue \ files
  PROVE  IngestInv'
<1> USE DEF IngestInv
<1>1. /\ record' \in [Files -> Record \cup {NoRecord}]
      /\ \A f \in Files : record'[f] = IF f \in files THEN NoRecord ELSE record[f]
  BY DEF Forgetting, TypeOK
<1>2. /\ Idle \in Run /\ Idle.phase = "idle" /\ Idle.todo = {} /\ Idle.tree = "none"
      /\ Idle.emptied = {}
      /\ \A f \in Files : Idle.read[f] = NoRecord /\ Idle.look[f].how = "no"
  BY IdleIsRun DEF Idle, Unlooked
<1>3. TypeOK'
  BY <1>1, <1>2 DEF TypeOK
<1>4. /\ ContentsAreOfFiles' /\ LookedOnce' /\ LooksAreTrue' /\ TrustedIsUnchanged'
      /\ ReadIsRecorded' /\ CutIsForgotten' /\ WalkedOrTold' /\ NothingEmptied'
  <2>1. ContentsAreOfFiles' /\ LooksAreTrue' /\ TrustedIsUnchanged'
    BY <1>1, <1>2 DEF ContentsAreOfFiles, LooksAreTrue, TrustedIsUnchanged, trusted
  <2>2. ReadIsRecorded' /\ LookedOnce' /\ WalkedOrTold'
    BY <1>1, <1>2 DEF ReadIsRecorded, LookedOnce, WalkedOrTold
  <2>3. CutIsForgotten' /\ NothingEmptied'
    BY <1>1, <1>2 DEF CutIsForgotten, NothingEmptied
  <2> QED BY <2>1, <2>2, <2>3
<1>5. SurfaceHasSource' /\ RecordIsTrue' /\ RecordingGoesOn' /\ SettledIsTrue'
  BY <1>1, <1>2
  DEF SurfaceHasSource, RecordIsTrue, SurfaceSays, OnSurface, RecordingGoesOn,
      SettledIsTrue, At
<1> QED BY <1>3, <1>4, <1>5

LEMMA ForgetSinceKeeps ==
  ASSUME IngestInv, ForgetSince
  PROVE  IngestInv'
<1>1. WrittenSince \in SUBSET Files
  BY DEF WrittenSince, Cut
<1> QED BY <1>1, EndKeeps DEF ForgetSince, topics

LEMMA StopKeeps ==
  ASSUME IngestInv, Stop
  PROVE  IngestInv'
<1>1. Forgetting({}) = record
  BY DEF Forgetting, IngestInv, TypeOK
<1> QED BY <1>1, EndKeeps DEF Stop, topics

-----------------------------------------------------------------------------

LEMMA IngestInit == Init => IngestInv
<1> SUFFICES ASSUME Init PROVE IngestInv
  OBVIOUS
<1> USE WhatIsAssumed
<1>1. /\ run = Idle /\ Idle \in Run /\ Idle.phase = "idle" /\ Idle.todo = {}
      /\ Idle.tree = "none" /\ Idle.emptied = {}
      /\ \A f \in Files : Idle.read[f] = NoRecord /\ Idle.look[f].how = "no"
  BY IdleIsRun DEF Idle, Unlooked, Init
<1>2. TypeOK
  BY <1>1 DEF Init, TypeOK
<1>3. /\ ContentsAreOfFiles /\ LookedOnce /\ LooksAreTrue /\ TrustedIsUnchanged
      /\ ReadIsRecorded /\ CutIsForgotten /\ WalkedOrTold /\ NothingEmptied
  BY <1>1
  DEF Init, ContentsAreOfFiles, LookedOnce, LooksAreTrue, TrustedIsUnchanged, trusted,
      ReadIsRecorded, CutIsForgotten, WalkedOrTold, NothingEmptied
<1>4. SurfaceHasSource /\ RecordIsTrue /\ RecordingGoesOn /\ SettledIsTrue
  BY <1>1
  DEF Init, SurfaceHasSource, RecordIsTrue, OnSurface, RecordingGoesOn, SettledIsTrue, At
<1> QED BY <1>2, <1>3, <1>4 DEF IngestInv

LEMMA IngestNext == IngestInv /\ [Next]_vars => IngestInv'
<1> SUFFICES ASSUME IngestInv, [Next]_vars PROVE IngestInv'
  OBVIOUS
<1>1. CASE Environment
  <2>1. \A f \in Files : Contents[f] \subseteq Content
    BY DEF Content
  <2> QED BY <1>1, <2>1, ChangeKeeps, WriteByHandKeeps, WriteHeldKeeps DEF Environment
<1>2. CASE Ingesting
  <2>1. ASSUME NEW r \in Requests, Begin(r[1], r[2], r[3])
        PROVE  IngestInv'
    <3>1. r[1] \in SUBSET Files /\ r[2] \in SUBSET Files /\ r[3] \in Tree
      BY IngestAssumption DEF IngestAssumption
    <3> QED BY <2>1, <3>1, BeginKeeps
  <2> QED
    BY <1>2, <2>1, LookAtKeeps, ReadFileKeeps, ForgetReadKeeps, PlanKeeps, RenameKeeps,
       RememberKeeps, RetireGoneKeeps, RetireEmptiedKeeps, CheckKeeps, ForgetLeftKeeps,
       PutRecordsKeeps, ForgetSinceKeeps, StopKeeps
    DEF Ingesting
<1>3. CASE UNCHANGED vars
  BY <1>3
  DEF vars, IngestInv, TypeOK, ContentsAreOfFiles, LookedOnce, LooksAreTrue,
      TrustedIsUnchanged, ReadIsRecorded, CutIsForgotten, WalkedOrTold, SurfaceHasSource,
      NothingEmptied, RecordingGoesOn, IsUnderWay, SettledIsTrue, RecordIsTrue,
      SurfaceSays, OnSurface, At, Cut, CutSections, TextOf, WrittenSince, KeptStale
<1> QED BY <1>1, <1>2, <1>3 DEF Next

\* The inductive invariant: what an ingest has read and has still to do of it, and what
\* the records say, agree with the disk and the surface at each of its statements.
THEOREM IngestIsConsistent == Spec => []IngestInv
BY IngestInit, IngestNext, PTL DEF Spec

\* A file left unread because its stat is the one on its record says what it said then,
\* however the clock hides a change from a stat taken too soon.
THEOREM UnreadIsUnchanged == Spec => []TrustedIsUnchanged
<1>1. IngestInv => TrustedIsUnchanged
  BY DEF IngestInv
<1> QED BY <1>1, IngestIsConsistent, PTL

\* A record stands only while the surface says what the file said, whatever is written by
\* hand while an ingest runs and wherever it stops.
THEOREM RecordsAreTrue == Spec => []RecordIsTrue
<1>1. IngestInv => RecordIsTrue
  BY DEF IngestInv
<1> QED BY <1>1, IngestIsConsistent, PTL

-----------------------------------------------------------------------------
(* What a step may not do.                                                 *)

\* What is written of a section is of a file whose record is not trusted, or that the
\* ingest was told is gone.
LEMMA WrittenIsNotTrusted ==
  ASSUME IngestInv, At("record"), NEW s \in Sections,
         s \in CutSections \/ s \in run.retirable
  PROVE  trusted(record[Of[s]]) => Of[s] \in run.deleted
<1>1. CASE s \in CutSections
  BY <1>1, CutIsOfFile DEF IngestInv, CutIsForgotten, At, trusted
<1>2. CASE s \in run.retirable
  BY <1>2 DEF IngestInv, RecordingGoesOn
<1> QED BY <1>1, <1>2

LEMMA LeavesTrusted ==
  ASSUME IngestInv, [Next]_vars
  PROVE  LeavesTrustedAlone
<1> SUFFICES ASSUME NEW s \in Sections, trusted(record[Of[s]]), Of[s] \notin run.deleted,
                    s \notin byHand', says'[s] # says[s]
             PROVE  FALSE
  BY DEF LeavesTrustedAlone, SectionsOf
<1>1. says \in [Sections -> Texts \cup {Never, Off}]
  BY DEF IngestInv, TypeOK
<1>2. At("record") => s \notin CutSections /\ s \notin run.retirable
  BY WrittenIsNotTrusted
<1>3. CASE Environment
  <2>1. PICK r \in Sections, text \in Texts : WriteByHand(r, text)
    BY <1>3 DEF Environment, Change, WriteHeld, topics
  <2> QED BY <1>1, <2>1 DEF WriteByHand
<1>4. ASSUME NEW from \in Sections, NEW to \in Sections, Rename(from, to) PROVE FALSE
  <2>1. s \in {from, to}
    BY <1>1, <1>4 DEF Rename
  <2>2. At("record") /\ from \in run.retirable /\ to \in CutSections
    BY <1>4 DEF Rename, Pair, Losable, IngestInv, RecordingGoesOn
  <2> QED BY <1>2, <2>1, <2>2
<1>5. ASSUME NEW r \in Sections, Remember(r) PROVE FALSE
  <2>1. s = r
    BY <1>1, <1>5 DEF Remember
  <2>2. At("record") /\ r \in CutSections
    BY <1>5 DEF Remember, IngestInv, RecordingGoesOn
  <2> QED BY <1>2, <2>1, <2>2
<1>6. ASSUME NEW r \in Sections, RetireGone(r) \/ RetireEmptied(r) PROVE FALSE
  <2>1. Retire(r)
    BY <1>6 DEF RetireGone, RetireEmptied, topics
  <2>2. s = r
    BY <1>1, <2>1 DEF Retire
  <2>3. At("record") /\ (r \in run.retirable \/ r \in CutSections)
    BY <1>6, <2>2 DEF RetireGone, RetireEmptied, IngestInv, RecordingGoesOn, topics
  <2> QED BY <1>2, <2>2, <2>3
<1>7. CASE Ingesting
  <2>1. \/ \E from, to \in Sections : Rename(from, to)
        \/ \E r \in Sections : Remember(r) \/ RetireGone(r) \/ RetireEmptied(r)
    BY <1>7
    DEF Ingesting, Begin, LookAt, ReadFile, Looked, Unreadable, ForgetRead, Plan, Check,
        ForgetLeft, PutRecords, ForgetSince, Stop, topics
  <2> QED BY <1>4, <1>5, <1>6, <2>1
<1>8. CASE UNCHANGED vars
  BY <1>8 DEF vars
<1> QED BY <1>3, <1>7, <1>8 DEF Next

LEMMA Overlooks ==
  ASSUME IngestInv
  PROVE  OverlooksNothing
<1> SUFFICES ASSUME Plan, run.tree = "whole",
                    \A f \in Files : Recorded(f) \subseteq FileTopics,
                    NEW s \in FileTopics, disk[Of[s]] = NoFile,
                    run.look[Of[s]].how = "no"
             PROVE  s \in run'.retirable
  BY DEF OverlooksNothing
<1> DEFINE f == Of[s]
           counted == UNION {Recorded(g) : g \in Files}
<1>1. s \in Sections /\ f \in Files /\ FileTopics \subseteq Sections /\ run.deleted = {}
  BY WhatIsAssumed DEF FileTopics, IngestInv, TypeOK, WalkedOrTold
<1>2. f \notin Cut /\ f \notin Kept /\ f \notin Found /\ s \notin CutSections
  BY <1>1, CutIsOfFile DEF IngestInv, Cut, Kept, Found
<1>3. f \in Left \/ Unknown
  <2>1. CASE record[f] # NoRecord
    BY <1>1, <1>2, <2>1 DEF Left
  <2>2. CASE record[f] = NoRecord
    <3>1. s \notin counted
      BY <1>1, <2>2, WhatIsAssumed DEF Recorded, IngestInv, ContentsAreOfFiles
    <3>2. counted \subseteq FileTopics /\ counted # FileTopics
      BY <3>1
    <3>3. IsFiniteSet(FileTopics)
      BY <1>1, IngestAssumption, FS_Subset DEF IngestAssumption
    <3>4. /\ IsFiniteSet(counted) /\ Cardinality(counted) < Cardinality(FileTopics)
          /\ Cardinality(counted) \in Nat /\ Cardinality(FileTopics) \in Nat
      BY <3>2, <3>3, FS_Subset, FS_CardinalityType
    <3> QED BY <3>4 DEF Unknown
  <2> QED BY <2>1, <2>2
<1>4. s \in Retirable
  BY <1>1, <1>2, <1>3 DEF InPlay, Gone, Retirable
<1>5. run'.retirable = Retirable
  BY DEF Plan, IngestInv, TypeOK, Run
<1> QED BY <1>4, <1>5

\* An ingest touches no section of a file whose record it can trust, however stale the
\* walk or the search it was asked by: an action property of every step.
THEOREM TrustedIsSpared == Spec => TrustedIsLeftAlone
<1>1. IngestInv /\ [Next]_vars => [LeavesTrustedAlone]_vars
  BY LeavesTrusted
<1> QED BY <1>1, IngestIsConsistent, PTL DEF Spec, TrustedIsLeftAlone

\* A walk that read the whole tree retires every section whose file is gone, unless a
\* record counts a section that is not there: an action property of `ingest`'s plan.
THEOREM WholeWalksOverlookNothing == Spec => NothingOverlooked
<1>1. IngestInv => OverlooksNothing
  BY Overlooks
<1>2. IngestInv /\ [Next]_vars => [OverlooksNothing]_vars
  BY <1>1
<1> QED BY <1>2, IngestIsConsistent, PTL DEF Spec, NothingOverlooked

-----------------------------------------------------------------------------
(***************************************************************************)
(* However many ask and however many engines keep what they were handed,   *)
(* a model's weights are in memory once: ModelsInv is inductive.           *)
(***************************************************************************)

UserRecord ==
  [at : UserAt, kind : Kind, engine : Engines \cup {NoEngine}, loads : BOOLEAN,
   copy : Weights \cup {NoCopy}]

LEMMA OutIs == Out \in UserRecord /\ Out.copy = NoCopy /\ Out.engine = NoEngine /\ Out.at = "out"
BY DEF Out, UserRecord, UserAt, Kind

\* A step of one user that neither begins nor ends a load, and holds what is resident.
LEMMA UserStepKeeps ==
  ASSUME ModelsInv, NEW u \in Users, NEW r \in UserRecord, User(u, r),
         ~Is(u, "loading"), r.at # "loading",
         r.copy # NoCopy => r.copy = resident[r.kind],
         r.engine # NoEngine => r.kind = "embedder",
         stale' \subseteq Kind, cell' \in [Engines -> Weights \cup {NoCopy}],
         \A e \in Engines : cell'[e] # NoCopy => cell'[e] = resident["embedder"],
         UNCHANGED <<resident, loading, sweep>>
  PROVE  ModelsInv'
<1>1. user' = [user EXCEPT ![u] = r] /\ user' \in [Users -> UserRecord]
  BY DEF User, ModelsInv, ModelsTypeOK, UserRecord
<1>2. \A w \in Users : user'[w] = IF w = u THEN r ELSE user[w]
  BY <1>1 DEF ModelsInv, ModelsTypeOK
<1>3. ModelsTypeOK'
  BY <1>1 DEF ModelsInv, ModelsTypeOK, UserRecord
<1>4. LoadsHoldTheLock'
  <2>1. ASSUME NEW w \in Users, user'[w].at = "loading"
        PROVE  loading'[user'[w].kind] = w
    BY <1>2, <2>1 DEF ModelsInv, LoadsHoldTheLock, Is
  <2>2. ASSUME NEW kind \in Kind, loading'[kind] # NoUser
        PROVE  /\ user'[loading'[kind]].at = "loading" /\ user'[loading'[kind]].kind = kind
               /\ resident'[kind] = NoCopy
    <3>1. loading[kind] \in Users /\ loading[kind] # u
      BY <2>2 DEF ModelsInv, ModelsTypeOK, LoadsHoldTheLock, Is, Free
    <3> QED
      BY <1>2, <2>2, <3>1 DEF ModelsInv, LoadsHoldTheLock, Is, Free
  <2> QED
    BY <2>1, <2>2 DEF LoadsHoldTheLock, Is, Free
<1>5. HeldIsResident'
  BY <1>2 DEF ModelsInv, HeldIsResident, Is
<1>6. EnginesEmbed'
  BY <1>2 DEF ModelsInv, EnginesEmbed
<1> QED
  BY <1>3, <1>4, <1>5, <1>6 DEF ModelsInv

LEMMA WantsKeeps ==
  ASSUME ModelsInv, NEW u \in Users, NEW kind \in Kind, NEW engine \in Engines \cup {NoEngine},
         NEW loads \in BOOLEAN, Wants(u, kind, engine, loads)
  PROVE  ModelsInv'
<1> DEFINE kept == IF engine = NoEngine THEN NoCopy ELSE cell[engine]
           r == [at |-> IF kept = NoCopy THEN "waiting" ELSE "using", kind |-> kind,
                 engine |-> engine, loads |-> loads, copy |-> kept]
<1>1. kept \in Weights \cup {NoCopy} /\ (kept # NoCopy => kept = resident["embedder"])
  BY DEF ModelsInv, ModelsTypeOK, HeldIsResident
<1>2. r \in UserRecord
  BY <1>1 DEF UserRecord, UserAt
<1>3. /\ ~Is(u, "loading") /\ User(u, r) /\ (engine # NoEngine => kind = "embedder")
      /\ UNCHANGED <<resident, loading, stale, cell, sweep>>
  BY DEF Wants, Is
<1>4. r.at # "loading" /\ r.copy = kept /\ r.kind = kind /\ r.engine = engine
  OBVIOUS
<1>5. kept # NoCopy => kind = "embedder"
  BY <1>3
<1> HIDE DEF r, kept
<1> QED
  BY <1>1, <1>2, <1>3, <1>4, <1>5, UserStepKeeps DEF ModelsInv, ModelsTypeOK, HeldIsResident

LEMMA IsHandedKeeps ==
  ASSUME ModelsInv, NEW u \in Users, IsHanded(u)
  PROVE  ModelsInv'
<1> DEFINE r == [user[u] EXCEPT !.at = "handed", !.copy = resident[user[u].kind]]
<1>1. user[u] \in UserRecord /\ resident[user[u].kind] \in Weights \cup {NoCopy}
  BY DEF ModelsInv, ModelsTypeOK, UserRecord
<1>2. r \in UserRecord
  BY <1>1 DEF UserRecord, UserAt
<1>3. /\ r.at = "handed" /\ r.copy = resident[r.kind]
      /\ (r.engine # NoEngine => r.kind = "embedder")
  BY <1>1 DEF UserRecord, ModelsInv, EnginesEmbed
<1>4. /\ ~Is(u, "loading") /\ User(u, r) /\ stale' \subseteq Kind
      /\ UNCHANGED <<resident, loading, cell, sweep>>
  BY DEF IsHanded, Is, ModelsInv, ModelsTypeOK
<1> HIDE DEF r
<1> QED
  BY <1>2, <1>3, <1>4, UserStepKeeps DEF ModelsInv, ModelsTypeOK, HeldIsResident

LEMMA IsOutKeeps ==
  ASSUME ModelsInv, NEW u \in Users, User(u, Out), ~Is(u, "loading"),
         UNCHANGED <<resident, loading, stale, cell, sweep>>
  PROVE  ModelsInv'
BY OutIs, UserStepKeeps DEF ModelsInv, ModelsTypeOK, HeldIsResident

\* Whatever the engine keeps, or comes to keep, is what was handed out.
LEMMA KeepsKeeps ==
  ASSUME ModelsInv, NEW u \in Users, Keeps(u)
  PROVE  ModelsInv'
<1> DEFINE e == user[u].engine
           r == [user[u] EXCEPT !.at = "using",
                                !.copy = IF e = NoEngine THEN @ ELSE cell'[e]]
<1>1. /\ user[u] \in UserRecord /\ e \in Engines \cup {NoEngine}
      /\ user[u].copy \in Weights \cup {NoCopy} /\ ~Is(u, "loading")
      /\ user[u].copy # NoCopy => user[u].copy = resident[user[u].kind]
      /\ e # NoEngine => user[u].kind = "embedder"
  BY DEF Keeps, Is, ModelsInv, ModelsTypeOK, UserRecord, HeldIsResident, EnginesEmbed
<1>2. cell' = IF e = NoEngine \/ cell[e] # NoCopy THEN cell ELSE [cell EXCEPT ![e] = user[u].copy]
  BY DEF Keeps
<1>3. /\ cell' \in [Engines -> Weights \cup {NoCopy}]
      /\ \A f \in Engines : cell'[f] # NoCopy => cell'[f] = resident["embedder"]
  BY <1>1, <1>2 DEF ModelsInv, ModelsTypeOK, HeldIsResident
<1>4. r \in UserRecord
  BY <1>1, <1>3 DEF UserRecord, UserAt
<1>5. /\ r.at = "using" /\ r.kind = user[u].kind /\ r.engine = e
      /\ r.copy = IF e = NoEngine THEN user[u].copy ELSE cell'[e]
  BY <1>1 DEF UserRecord
<1>6. User(u, r) /\ UNCHANGED <<resident, loading, stale, sweep>>
  BY DEF Keeps
<1>7. r.copy # NoCopy => r.copy = resident[r.kind]
  BY <1>1, <1>3, <1>5
<1> HIDE DEF r, e
<1> QED
  BY <1>1, <1>3, <1>4, <1>5, <1>6, <1>7, UserStepKeeps DEF ModelsInv, ModelsTypeOK

-----------------------------------------------------------------------------
(* Loads.                                                                  *)

LEMMA BeginsToLoadKeeps ==
  ASSUME ModelsInv, NEW u \in Users, BeginsToLoad(u)
  PROVE  ModelsInv'
<1> DEFINE kind == user[u].kind
<1>1. PICK c \in Weights : User(u, [user[u] EXCEPT !.at = "loading", !.copy = c])
  BY DEF BeginsToLoad
<1> DEFINE r == [user[u] EXCEPT !.at = "loading", !.copy = c]
<1>2. /\ user[u] \in UserRecord /\ kind \in Kind /\ loading[kind] = NoUser
      /\ resident[kind] = NoCopy /\ loading' = [loading EXCEPT ![kind] = u]
      /\ UNCHANGED <<resident, stale, cell, sweep>>
  BY DEF BeginsToLoad, Free, ModelsInv, ModelsTypeOK, UserRecord
<1>3. /\ r \in UserRecord /\ r.at = "loading" /\ r.kind = kind /\ r.engine = user[u].engine
  BY <1>2 DEF UserRecord, UserAt
<1>4. user' = [user EXCEPT ![u] = r]
  BY <1>1 DEF User
<1> HIDE DEF r
<1>5. /\ user' \in [Users -> UserRecord]
      /\ \A w \in Users : user'[w] = IF w = u THEN r ELSE user[w]
  BY <1>3, <1>4 DEF ModelsInv, ModelsTypeOK, UserRecord
<1>6. ModelsTypeOK'
  BY <1>2, <1>5 DEF ModelsInv, ModelsTypeOK, UserRecord
<1>7. LoadsHoldTheLock'
  <2>1. u # NoUser /\ \A k \in Kind : loading'[k] = IF k = kind THEN u ELSE loading[k]
    BY <1>2, ModelsAssumption DEF ModelsInv, ModelsTypeOK
  <2>2. ~Is(u, "loading")
    BY DEF BeginsToLoad, Is
  <2>3. ASSUME NEW w \in Users, user'[w].at = "loading"
        PROVE  loading'[user'[w].kind] = w
    <3>1. CASE w = u
      BY <1>2, <1>3, <1>5, <2>1, <3>1
    <3>2. CASE w # u
      <4>1. user'[w] = user[w] /\ user[w].kind \in Kind /\ loading[user[w].kind] = w
        BY <1>5, <2>3, <3>2
        DEF ModelsInv, ModelsTypeOK, LoadsHoldTheLock, Is
      <4> QED
        BY <1>2, <2>1, <4>1, ModelsAssumption
    <3> QED
      BY <3>1, <3>2
  <2>4. ASSUME NEW k \in Kind, loading'[k] # NoUser
        PROVE  /\ user'[loading'[k]].at = "loading" /\ user'[loading'[k]].kind = k
               /\ resident'[k] = NoCopy
    <3>1. CASE k = kind
      BY <1>2, <1>3, <1>5, <2>1, <3>1
    <3>2. CASE k # kind
      <4>1. loading'[k] = loading[k] /\ loading[k] \in Users /\ loading[k] # u
        BY <2>1, <2>2, <2>4, <3>2
        DEF ModelsInv, ModelsTypeOK, LoadsHoldTheLock, Is, Free
      <4> QED
        BY <1>2, <1>5, <2>4, <4>1 DEF ModelsInv, LoadsHoldTheLock, Is, Free
    <3> QED
      BY <3>1, <3>2
  <2> QED
    BY <2>3, <2>4 DEF LoadsHoldTheLock, Is, Free
<1>8. HeldIsResident'
  BY <1>2, <1>3, <1>5 DEF ModelsInv, HeldIsResident, Is
<1>9. EnginesEmbed'
  BY <1>3, <1>5 DEF ModelsInv, EnginesEmbed
<1> QED
  BY <1>6, <1>7, <1>8, <1>9 DEF ModelsInv

\* A load that ends lets go of the lock; of its kind, of which there was none, `copy` is
\* resident now, if anything.
LEMMA LoadEndsKeeps ==
  ASSUME ModelsInv, NEW u \in Users, Is(u, "loading"), NEW r \in UserRecord, User(u, r),
         NEW copy \in Weights \cup {NoCopy},
         r.at # "loading", r.copy # NoCopy => r.kind = user[u].kind /\ r.copy = copy,
         r.engine # NoEngine => r.kind = "embedder",
         resident' = [resident EXCEPT ![user[u].kind] = copy],
         loading' = [loading EXCEPT ![user[u].kind] = NoUser],
         stale' \subseteq Kind, UNCHANGED <<cell, sweep>>
  PROVE  ModelsInv'
<1> DEFINE kind == user[u].kind
<1>1. kind \in Kind /\ loading[kind] = u /\ resident[kind] = NoCopy /\ u # NoUser
  BY ModelsAssumption DEF ModelsInv, ModelsTypeOK, LoadsHoldTheLock, Is, Free
<1>2. /\ user' \in [Users -> UserRecord]
      /\ \A w \in Users : user'[w] = IF w = u THEN r ELSE user[w]
  BY DEF User, ModelsInv, ModelsTypeOK, UserRecord
<1>3. /\ \A k \in Kind : resident'[k] = IF k = kind THEN copy ELSE resident[k]
      /\ \A k \in Kind : loading'[k] = IF k = kind THEN NoUser ELSE loading[k]
  BY <1>1 DEF ModelsInv, ModelsTypeOK
<1>4. ModelsTypeOK'
  BY <1>2 DEF ModelsInv, ModelsTypeOK, UserRecord
<1>5. LoadsHoldTheLock'
  <2>1. ASSUME NEW w \in Users, user'[w].at = "loading"
        PROVE  loading'[user'[w].kind] = w
    <3>1. w # u /\ user'[w] = user[w]
      BY <1>2, <2>1
    <3>2. user[w].kind \in Kind /\ loading[user[w].kind] = w
      BY <2>1, <3>1 DEF ModelsInv, ModelsTypeOK, LoadsHoldTheLock, Is
    <3> QED
      BY <1>1, <1>3, <3>1, <3>2
  <2>2. ASSUME NEW k \in Kind, loading'[k] # NoUser
        PROVE  /\ user'[loading'[k]].at = "loading" /\ user'[loading'[k]].kind = k
               /\ resident'[k] = NoCopy
    <3>1. k # kind /\ loading'[k] = loading[k] /\ resident'[k] = resident[k]
      BY <1>3, <2>2
    <3>2. loading[k] \in Users /\ user[loading[k]].kind = k /\ loading[k] # u
      BY <2>2, <3>1 DEF ModelsInv, ModelsTypeOK, LoadsHoldTheLock, Free
    <3> QED
      BY <1>2, <2>2, <3>1, <3>2 DEF ModelsInv, LoadsHoldTheLock, Is, Free
  <2> QED
    BY <2>1, <2>2 DEF LoadsHoldTheLock, Is, Free
<1>6. HeldIsResident'
  <2>1. ASSUME NEW e \in Engines, cell[e] # NoCopy
        PROVE  cell[e] = resident'["embedder"]
    BY <1>1, <1>3, <2>1 DEF ModelsInv, HeldIsResident, Kind
  <2>2. ASSUME NEW w \in Users, user'[w].copy # NoCopy, user'[w].at # "loading"
        PROVE  user'[w].copy = resident'[user'[w].kind]
    <3>1. CASE w = u
      BY <1>1, <1>2, <1>3, <2>2, <3>1
    <3>2. CASE w # u
      <4>1. user'[w] = user[w] /\ user[w].kind \in Kind
        BY <1>2, <3>2 DEF ModelsInv, ModelsTypeOK
      <4>2. user[w].copy = resident[user[w].kind]
        BY <2>2, <4>1 DEF ModelsInv, HeldIsResident, Is
      <4> QED
        BY <1>1, <1>3, <2>2, <4>1, <4>2
    <3> QED
      BY <3>1, <3>2
  <2> QED
    BY <2>1, <2>2 DEF HeldIsResident, Is
<1>7. EnginesEmbed'
  BY <1>2 DEF ModelsInv, EnginesEmbed
<1> QED
  BY <1>4, <1>5, <1>6, <1>7 DEF ModelsInv

LEMMA HasLoadedKeeps ==
  ASSUME ModelsInv, NEW u \in Users, HasLoaded(u)
  PROVE  ModelsInv'
<1> DEFINE r == [user[u] EXCEPT !.at = "handed"]
<1>1. user[u] \in UserRecord
  BY DEF ModelsInv, ModelsTypeOK, UserRecord
<1>2. /\ r \in UserRecord /\ r.at = "handed" /\ r.kind = user[u].kind /\ r.copy = user[u].copy
      /\ (r.engine # NoEngine => r.kind = "embedder") /\ user[u].copy \in Weights \cup {NoCopy}
  BY <1>1 DEF UserRecord, UserAt, ModelsInv, EnginesEmbed
<1>3. /\ Is(u, "loading") /\ User(u, r) /\ stale' \subseteq Kind /\ UNCHANGED <<cell, sweep>>
      /\ resident' = [resident EXCEPT ![user[u].kind] = user[u].copy]
      /\ loading' = [loading EXCEPT ![user[u].kind] = NoUser]
  BY DEF HasLoaded, ModelsInv, ModelsTypeOK
<1> HIDE DEF r
<1> QED
  BY <1>2, <1>3, LoadEndsKeeps

LEMMA LoadFailsKeeps ==
  ASSUME ModelsInv, NEW u \in Users, LoadFails(u)
  PROVE  ModelsInv'
<1>1. /\ Is(u, "loading") /\ User(u, Out) /\ stale' \subseteq Kind /\ UNCHANGED <<cell, sweep>>
      /\ loading' = [loading EXCEPT ![user[u].kind] = NoUser]
  BY DEF LoadFails, ModelsInv, ModelsTypeOK
<1>2. resident' = [resident EXCEPT ![user[u].kind] = NoCopy]
  <2>1. resident[user[u].kind] = NoCopy
    BY <1>1, ModelsAssumption DEF ModelsInv, ModelsTypeOK, LoadsHoldTheLock, Is, Free
  <2> QED
    BY <2>1 DEF LoadFails, ModelsInv, ModelsTypeOK
<1> QED
  BY <1>1, <1>2, OutIs, LoadEndsKeeps

-----------------------------------------------------------------------------
(* Giving back.                                                            *)

LEMMA CellsKept ==
  ASSUME ModelsInv, cell' \in [Engines -> Weights \cup {NoCopy}],
         \A e \in Engines : cell'[e] \in {cell[e], NoCopy},
         sweep' \in {"engines"} \cup Released, stale' \subseteq Kind,
         UNCHANGED <<resident, loading, user>>
  PROVE  ModelsInv'
<1>1. ModelsTypeOK' /\ LoadsHoldTheLock' /\ EnginesEmbed'
  BY DEF ModelsInv, ModelsTypeOK, LoadsHoldTheLock, EnginesEmbed, Is, Free
<1>2. HeldIsResident'
  BY DEF ModelsInv, HeldIsResident, Is
<1> QED
  BY <1>1, <1>2 DEF ModelsInv

\* What nobody has, no engine keeps and nobody holds.
LEMMA ReleaseIdleKeeps ==
  ASSUME ModelsInv, NEW kind \in Kind, ReleaseIdle(kind)
  PROVE  ModelsInv'
<1>1. sweep' \in {"engines"} \cup Released /\ UNCHANGED <<loading, stale, cell, user>>
  BY DEF ReleaseIdle, Released, Kind
<1>2. CASE UNCHANGED resident
  BY <1>1, <1>2, CellsKept DEF ModelsInv, ModelsTypeOK
<1>3. CASE Free(kind) /\ IsIdle(kind) /\ resident' = [resident EXCEPT ![kind] = NoCopy]
  <2>1. \A k \in Kind : resident'[k] = IF k = kind THEN NoCopy ELSE resident[k]
    BY <1>3 DEF ModelsInv, ModelsTypeOK
  <2>2. ModelsTypeOK' /\ EnginesEmbed'
    BY <1>1, <1>3 DEF ModelsInv, ModelsTypeOK, EnginesEmbed
  <2>3. LoadsHoldTheLock'
    BY <1>1, <2>1 DEF ModelsInv, LoadsHoldTheLock, Is, Free
  <2>4. ASSUME NEW e \in Engines, cell[e] # NoCopy
        PROVE  cell[e] = resident'["embedder"]
    <3>1. cell[e] = resident["embedder"] /\ "embedder" \in Kind
      BY <2>4 DEF ModelsInv, HeldIsResident, Kind
    <3>2. kind # "embedder"
      BY <1>3, <3>1 DEF IsIdle, NobodyHas, CellsOf
    <3> QED
      BY <2>1, <3>1, <3>2
  <2>5. ASSUME NEW u \in Users, user[u].copy # NoCopy, ~Is(u, "loading")
        PROVE  user[u].copy = resident'[user[u].kind]
    <3>1. user[u].copy = resident[user[u].kind] /\ user[u].kind \in Kind
      BY <2>5 DEF ModelsInv, HeldIsResident, ModelsTypeOK
    <3>2. kind # user[u].kind
      BY <1>3, <3>1 DEF IsIdle, NobodyHas, HeldBy
    <3> QED
      BY <2>1, <3>1, <3>2
  <2>6. HeldIsResident'
    BY <1>1, <2>4, <2>5 DEF HeldIsResident, Is
  <2> QED
    BY <2>2, <2>3, <2>6 DEF ModelsInv
<1> QED
  BY <1>2, <1>3 DEF ReleaseIdle

-----------------------------------------------------------------------------

LEMMA ModelsInvStarts ==
  ASSUME ModelsInit
  PROVE  ModelsInv
<1>1. ModelsTypeOK
  BY OutIs DEF ModelsInit, ModelsTypeOK, UserRecord, Released, Kind
<1> QED
  BY <1>1, OutIs
  DEF ModelsInit, ModelsInv, LoadsHoldTheLock, HeldIsResident, EnginesEmbed, Is, Free, Kind

LEMMA ModelsInvKept == ModelsInv /\ [ModelsNext]_modelsVars => ModelsInv'
<1> SUFFICES ASSUME ModelsInv, [ModelsNext]_modelsVars
             PROVE  ModelsInv'
  OBVIOUS
<1>1. ASSUME NEW u \in Users, Uses(u)
      PROVE  ModelsInv'
  <2>1. CASE FindsNone(u) \/ IsDone(u)
    BY <2>1, IsOutKeeps DEF FindsNone, IsDone, Is
  <2> QED
    BY <1>1, <2>1, WantsKeeps, IsHandedKeeps, BeginsToLoadKeeps, HasLoadedKeeps,
       LoadFailsKeeps, KeepsKeeps DEF Uses
<1>2. ASSUME NEW kind \in Kind, TimeGoesBy(kind)
      PROVE  ModelsInv'
  BY <1>2, CellsKept DEF TimeGoesBy, ModelsInv, ModelsTypeOK
<1>3. ASSUME NEW kind \in Kind, ReleaseIdle(kind)
      PROVE  ModelsInv'
  BY <1>3, ReleaseIdleKeeps
<1>4. CASE CloseIdle
  BY <1>4, CellsKept DEF CloseIdle, ModelsInv, ModelsTypeOK, Released, Kind
<1>5. ASSUME NEW e \in Engines, Evict(e)
      PROVE  ModelsInv'
  BY <1>5, CellsKept DEF Evict, ModelsInv, ModelsTypeOK
<1>6. CASE UNCHANGED modelsVars
  BY <1>6, CellsKept DEF modelsVars, ModelsInv, ModelsTypeOK
<1> QED
  BY <1>1, <1>2, <1>3, <1>4, <1>5, <1>6 DEF ModelsNext

\* However many ask for a model, and whatever loads, engines and the sweep do meanwhile:
\* a load holds the lock of its kind, and all else that is held is what is resident
\* (Models, crates/engine/src/engine.rs).
THEOREM ModelsAreConsistent == ModelsSpec => []ModelsInv
<1> QED
  BY ModelsInvStarts, ModelsInvKept, PTL DEF ModelsSpec

\* The weights are in memory once: a kind nobody has is all that is given back, and a kind
\* is loaded only when there is none (crates/engine/src/engine.rs:787-792).
THEOREM WeightsAreInMemoryOnce == ModelsSpec => []OneCopy
<1>1. ModelsInv => OneCopy
  <2> SUFFICES ASSUME ModelsInv, NEW kind \in Kind
               PROVE  Cardinality(InMemory(kind)) <= 1
    BY DEF OneCopy
  <2>1. \E c : InMemory(kind) \subseteq {c}
    <3>1. CASE Free(kind)
      <4>1. \A u \in Users : user[u].kind = kind => ~Is(u, "loading")
        BY <3>1, ModelsAssumption DEF ModelsInv, LoadsHoldTheLock, Free
      <4>2. InMemory(kind) \subseteq {resident[kind]}
        BY <4>1 DEF ModelsInv, HeldIsResident, InMemory, CellsOf, HeldBy
      <4> QED
        BY <4>2
    <3>2. CASE ~Free(kind)
      <4>1. /\ resident[kind] = NoCopy
            /\ \A u \in Users : user[u].kind = kind /\ Is(u, "loading") => u = loading[kind]
        BY <3>2 DEF ModelsInv, LoadsHoldTheLock
      <4>2. InMemory(kind) \subseteq {user[loading[kind]].copy}
        BY <4>1 DEF ModelsInv, HeldIsResident, InMemory, CellsOf, HeldBy
      <4> QED
        BY <4>2
    <3> QED
      BY <3>1, <3>2
  <2>2. PICK c : InMemory(kind) \subseteq {c}
    BY <2>1
  <2>3. InMemory(kind) = {} \/ InMemory(kind) = {c}
    BY <2>2
  <2> QED
    BY <2>3, FS_EmptySet, FS_Singleton
<1> QED
  BY <1>1, ModelsAreConsistent, PTL

=============================================================================
