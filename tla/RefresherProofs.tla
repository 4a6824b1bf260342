---------------------------- MODULE RefresherProofs ----------------------------
(***************************************************************************)
(* The feeds table under refreshes and handlers, for every number of feeds *)
(* and handlers: types of the table and of the copies of its rows that its *)
(* readers and writers hold, and under any faults no feed is its own merge *)
(* candidate and none has articles of another's URL; refreshes without     *)
(* rivals meet no constraint, and validators run ahead of the articles     *)
(* only by what a refresh that was cut off between the two has fetched.    *)
(***************************************************************************)
EXTENDS RefreshHistory, TLAPS

Places == {"idle", "check", "save", "importSave", "create", "form", "merge"}
RequestTypes == [at : Places, id : IDs \cup {NoFeed}, row : Rows, aim : IDs \cup {NoFeed}]
FetchTypes == [result : Results, final : URLs, ver : 1..MaxVer]

\* The rows and records that the actions build.
LEMMA RowTypes ==
    /\ \A u \in URLs, d \in Folders : NewRow(u, d) \in Rows
    /\ BlankRow \in Rows
    /\ AnyFolder \in Folders /\ AnyURL \in URLs
    /\ 1 \in IDs
    /\ NoRow \notin Rows
<1>1. \A u \in URLs, d \in Folders : NewRow(u, d) \in Rows
  BY DEF NewRow, Rows, NoFeed
<1>2. AnyFolder \in Folders /\ AnyURL \in URLs
  BY RefresherAssumption DEF AnyFolder, AnyURL
<1>3. 1 \in IDs
  BY RefresherAssumption DEF IDs
<1> QED BY <1>1, <1>2, <1>3, RefresherAssumption DEF BlankRow

LEMMA RecordTypes ==
    /\ NoOther \in [id : IDs, row : Rows]
    /\ NoFetch \in FetchTypes
    /\ NoRequest \in RequestTypes
<1>1. 1 \in 1..MaxVer
  BY RefresherAssumption
<1> QED
  BY <1>1, RowTypes
  DEF NoOther, NoFetch, NoRequest, FetchTypes, RequestTypes, Places, Results, NoFeed

\* What a refresh writes into the row it loaded is a row with the same
\* merge candidate.
LEMMA OutcomeTypes ==
    ASSUME NEW r \in Rows, fetched \in FetchTypes
    PROVE  Outcome(r) \in Rows /\ Outcome(r).cand = r.cand
<1>1. [src |-> fetched.final, ver |-> fetched.ver] \in Content
  BY DEF FetchTypes, Content
<1>2. fetched.result \in {"failed", "notModified", "garbled", "ok"}
  BY DEF FetchTypes, Results
<1>3. CASE fetched.result \in {"failed", "garbled"}
  BY <1>3 DEF Outcome, Rows
<1>4. CASE fetched.result = "notModified"
  BY <1>4 DEF Outcome, Rows
<1>5. CASE fetched.result = "ok"
  BY <1>1, <1>5 DEF Outcome, Rows
<1> QED BY <1>2, <1>3, <1>4, <1>5

\* ON DELETE SET NULL leaves a table, in which nobody has a candidate that it
\* did not have.
LEMMA DeletedTypes ==
    ASSUME NEW table \in [IDs -> Rows \cup {NoRow}], NEW id
    PROVE  /\ Deleted(table, id) \in [IDs -> Rows \cup {NoRow}]
           /\ \A i \in IDs :
                  \/ Deleted(table, id)[i] = NoRow
                  \/ Deleted(table, id)[i] = table[i]
                  \/ Deleted(table, id)[i] \in Rows /\ Deleted(table, id)[i].cand = NoFeed
<1>1. \A r \in Rows : [r EXCEPT !.cand = NoFeed] \in Rows
                      /\ [r EXCEPT !.cand = NoFeed].cand = NoFeed
  BY DEF Rows
<1> QED BY <1>1 DEF Deleted

LEMMA UpdateTypes ==
    ASSUME feeds \in [IDs -> Rows \cup {NoRow}], NEW id, NEW r \in Rows,
           Update(id, r) \/ UpdateFails(id, r) \/ UNCHANGED feeds
    PROVE  feeds' \in [IDs -> Rows \cup {NoRow}]
  BY DEF Update, UpdateFails

\* The table, the row copies and the requests stay in their ranges, whatever
\* fails in between.
THEOREM TypeCorrect == Spec => []TypeOK
<1>1. Init => TypeOK
  <2> SUFFICES ASSUME Init PROVE TypeOK
    OBVIOUS
  <2>1. feeds \in [IDs -> Rows \cup {NoRow}]
    BY RowTypes, RefresherAssumption DEF Init, IDs
  <2>2. nextId \in 1..(MaxId + 1)
    BY RefresherAssumption DEF Init
  <2>3. /\ stored \in [IDs -> Content \cup {Nothing}]
        /\ published \in [URLs -> 1..MaxVer]
    BY RefresherAssumption DEF Init
  <2>4. job \in IDs /\ row \in Rows /\ other \in [id : IDs, row : Rows]
        /\ fetched \in FetchTypes /\ req \in [Handlers -> RequestTypes]
    BY RowTypes, RecordTypes DEF Init
  <2> QED
    BY <2>1, <2>2, <2>3, <2>4 DEF Init, TypeOK, FetchTypes, RequestTypes, Places
<1>2. TypeOK /\ [Next]_vars => TypeOK'
  <2> SUFFICES ASSUME TypeOK, [Next]_vars PROVE TypeOK'
    OBVIOUS
  <2> USE DEF tableVars, refreshVars, handlerUnchanged
  <2>0. /\ feeds \in [IDs -> Rows \cup {NoRow}]
        /\ row \in Rows /\ other \in [id : IDs, row : Rows]
        /\ fetched \in FetchTypes /\ req \in [Handlers -> RequestTypes]
        /\ \A i \in Live : i \in IDs /\ feeds[i] \in Rows
    BY DEF TypeOK, FetchTypes, RequestTypes, Places, Live
  \* The actions of Refresh leave the requests and the IDs alone.
  <2> DEFINE RefreshOK ==
               /\ feeds' \in [IDs -> Rows \cup {NoRow}]
               /\ stored' \in [IDs -> Content \cup {Nothing}]
               /\ job' \in IDs /\ row' \in Rows /\ other' \in [id : IDs, row : Rows]
               /\ fetched' \in FetchTypes
               /\ step' \in {"idle", "fetch", "lookup", "flag", "save", "syncLoad",
                             "syncMeta", "articles", "iconLoad", "iconSave"}
             RequestOK == req' \in [Handlers -> RequestTypes]
  <2>1. ASSUME RefreshOK, UNCHANGED <<nextId, published, req>> PROVE TypeOK'
    BY <2>1 DEF TypeOK, FetchTypes
  <2>2. ASSUME RequestOK, feeds' \in [IDs -> Rows \cup {NoRow}],
               nextId' \in 1..(MaxId + 1),
               stored' \in [IDs -> Content \cup {Nothing}],
               UNCHANGED <<published, refreshVars>>
        PROVE  TypeOK'
    BY <2>2 DEF TypeOK, RequestTypes, Places
  <2>3. Return => /\ job' \in IDs /\ row' \in Rows
                  /\ other' \in [id : IDs, row : Rows]
                  /\ fetched' \in FetchTypes /\ step' = "idle"
    BY RowTypes, RecordTypes DEF Return
  <2>4. ASSUME NEW id \in IDs, Begin(id) PROVE TypeOK'
    <3>1. RefreshOK
      BY <2>0, <2>4 DEF Begin, TypeOK
    <3> QED BY <2>1, <2>4, <3>1 DEF Begin
  <2>5. CASE FetchFails
    <3>1. [result |-> "failed", final |-> row.url, ver |-> 1] \in FetchTypes
      BY <2>0, RefresherAssumption DEF FetchTypes, Results, Rows
    <3>2. RefreshOK
      BY <2>0, <2>5, <3>1 DEF FetchFails, TypeOK
    <3> QED BY <2>1, <2>5, <3>2 DEF FetchFails
  <2>6. CASE FetchAnswers
    <3>1. Target[row.url] \in URLs /\ published[Target[row.url]] \in 1..MaxVer
      BY <2>0, RefresherAssumption DEF Rows, TypeOK
    <3>2. fetched' \in FetchTypes
      BY <2>6, <3>1 DEF FetchAnswers, FetchTypes, Results
    <3>3. RefreshOK
      BY <2>0, <2>6, <3>2 DEF FetchAnswers, TypeOK
    <3> QED BY <2>1, <2>6, <3>3 DEF FetchAnswers
  <2>7. CASE Collide
    <3>1. PICK o \in Live \ {job} :
              /\ row' = [row EXCEPT !.cand = o]
              /\ other' = [id |-> o, row |-> [feeds[o] EXCEPT !.cand = job]]
      BY <2>7 DEF Collide
    <3>2. row' \in Rows
      BY <2>0, <3>1 DEF Rows
    <3>3. [feeds[o] EXCEPT !.cand = job] \in Rows
      BY <2>0, <3>1 DEF Rows, TypeOK
    <3>4. RefreshOK
      BY <2>0, <2>7, <3>1, <3>2, <3>3 DEF Collide, TypeOK
    <3> QED BY <2>1, <2>7, <3>4 DEF Collide
  <2>8. CASE Adopt
    <3>1. row' \in Rows
      BY <2>0, <2>8 DEF Adopt, Rows, FetchTypes
    <3>2. RefreshOK
      BY <2>0, <2>8, <3>1 DEF Adopt, TypeOK
    <3> QED BY <2>1, <2>8, <3>2 DEF Adopt
  <2>9. CASE Flag
    <3>1. feeds' \in [IDs -> Rows \cup {NoRow}]
      BY <2>0, <2>9, UpdateTypes DEF Flag
    <3>2. RefreshOK
      BY <2>0, <2>9, <3>1 DEF Flag, GoOn, TypeOK
    <3> QED BY <2>1, <2>9, <3>2 DEF Flag, GoOn
  <2>10. CASE Save
    <3>1. Outcome(row) \in Rows
      BY <2>0, OutcomeTypes
    <3>2. feeds' \in [IDs -> Rows \cup {NoRow}]
      BY <2>0, <2>10, <3>1, UpdateTypes DEF Save
    <3>3. RefreshOK
      BY <2>0, <2>3, <2>10, <3>2 DEF Save, GoOn, TypeOK
    <3> QED BY <2>1, <2>10, <3>3 DEF Save
  <2>11. ASSUME NEW from, NEW to \in {"syncMeta", "iconSave"}, NEW needed,
                Load(from, to, needed)
         PROVE  TypeOK'
    <3>1. RefreshOK
      BY <2>0, <2>3, <2>11 DEF Load, TypeOK
    <3> QED BY <2>1, <2>11, <3>1 DEF Load
  <2>12. CASE SyncMeta
    <3>1. feeds' \in [IDs -> Rows \cup {NoRow}]
      BY <2>0, <2>12, UpdateTypes DEF SyncMeta
    <3>2. RefreshOK
      BY <2>0, <2>3, <2>12, <3>1 DEF SyncMeta, GoOn, TypeOK
    <3> QED BY <2>1, <2>12, <3>2 DEF SyncMeta
  <2>13. CASE StoreArticles
    <3>1. [src |-> fetched.final, ver |-> fetched.ver] \in Content
      BY <2>0 DEF FetchTypes, Content
    <3>2. stored' \in [IDs -> Content \cup {Nothing}]
      BY <2>13, <3>1 DEF StoreArticles, TypeOK
    <3>3. RefreshOK
      BY <2>0, <2>13, <3>2 DEF StoreArticles, GoOn, TypeOK
    <3> QED BY <2>1, <2>13, <3>3 DEF StoreArticles
  <2>14. CASE SyncFails
    <3>1. RefreshOK
      BY <2>0, <2>3, <2>14 DEF SyncFails, TypeOK
    <3> QED BY <2>1, <2>14, <3>1 DEF SyncFails
  <2>15. CASE IconSave
    <3>1. [row EXCEPT !.icon = TRUE] \in Rows
      BY <2>0 DEF Rows
    <3>2. feeds' \in [IDs -> Rows \cup {NoRow}]
      BY <2>0, <2>15, <3>1, UpdateTypes DEF IconSave
    <3>3. RefreshOK
      BY <2>3, <2>15, <3>2 DEF IconSave, TypeOK
    <3> QED BY <2>1, <2>15, <3>3 DEF IconSave
  <2>16. ASSUME NEW id \in IDs, NEW u \in URLs, NEW d \in Folders, NEW h \in Handlers,
                EditLoad(h, id, u, d) \/ Subscribe(h, u, d)
         PROVE  TypeOK'
    <3>1. ASSUME NEW i \in Live
          PROVE  /\ [feeds[i] EXCEPT !.url = u, !.folder = d] \in Rows
                 /\ [feeds[i] EXCEPT !.folder = d] \in Rows
      BY <2>0, <3>1 DEF Rows
    <3>2. CASE EditLoad(h, id, u, d)
      <4>1. RequestOK
        BY <2>0, <2>16, <3>1, <3>2 DEF EditLoad, Goes, RequestTypes, Places
      <4> QED BY <2>2, <3>2, <4>1 DEF EditLoad, TypeOK
    <3>3. CASE Subscribe(h, u, d)
      <4>1. NewRow(u, d) \in Rows
        BY RowTypes
      <4>2. [NoRequest EXCEPT !.at = "create", !.row = NewRow(u, d)] \in RequestTypes
        BY <4>1, RecordTypes DEF RequestTypes, Places
      <4>3. ASSUME NEW i \in Live
            PROVE  [at |-> "importSave", id |-> i,
                    row |-> [feeds[i] EXCEPT !.folder = d], aim |-> NoFeed] \in RequestTypes
        BY <2>0, <3>1 DEF RequestTypes, Places
      <4>4. \E q \in RequestTypes : Goes(h, q)
        BY <3>3, <4>2, <4>3 DEF Subscribe
      <4>5. RequestOK
        BY <2>0, <4>4 DEF Goes
      <4> QED BY <2>2, <3>3, <4>5 DEF Subscribe, TypeOK
    <3> QED BY <2>16, <3>2, <3>3
  <2>17. ASSUME NEW h \in Handlers PROVE Ends(h) => RequestOK
    BY <2>0, RecordTypes DEF Ends, Goes
  <2>18. ASSUME NEW h \in Handlers, EditCheck(h) PROVE TypeOK'
    <3>1. RequestOK
      BY <2>0, <2>17, <2>18 DEF EditCheck, Goes, RequestTypes, Places
    <3> QED BY <2>2, <2>18, <3>1 DEF EditCheck, TypeOK
  <2>19. ASSUME NEW h \in Handlers, EditSave(h) \/ ImportSave(h) PROVE TypeOK'
    <3>1. req[h].row \in Rows
      BY <2>0 DEF RequestTypes
    <3>2. feeds' \in [IDs -> Rows \cup {NoRow}]
      BY <2>0, <2>19, <3>1, UpdateTypes DEF EditSave, ImportSave
    <3> QED BY <2>2, <2>17, <2>19, <3>2 DEF EditSave, ImportSave, TypeOK
  <2>20. ASSUME NEW h \in Handlers, SubscribeCreate(h) PROVE TypeOK'
    <3>1. req[h].row \in Rows
      BY <2>0 DEF RequestTypes
    <3>2. CASE Create(req[h].row)
      <4>1. feeds' \in [IDs -> Rows \cup {NoRow}] /\ nextId' \in 1..(MaxId + 1)
            /\ UNCHANGED stored
        BY <2>0, <3>1, <3>2, RefresherAssumption DEF Create, TypeOK, IDs
      <4> QED BY <2>2, <2>17, <2>20, <4>1 DEF SubscribeCreate, TypeOK
    <3>3. CASE UNCHANGED tableVars
      BY <2>2, <2>17, <2>20, <3>3 DEF SubscribeCreate, TypeOK
    <3> QED BY <2>20, <3>2, <3>3 DEF SubscribeCreate
  <2>21. ASSUME NEW id \in IDs, Delete(id) PROVE TypeOK'
    <3>1. feeds' \in [IDs -> Rows \cup {NoRow}]
      BY <2>0, <2>21, DeletedTypes DEF Delete
    <3>2. stored' \in [IDs -> Content \cup {Nothing}]
      BY <2>21 DEF Delete, TypeOK
    <3> QED BY <2>0, <2>2, <2>21, <3>1, <3>2 DEF Delete, TypeOK
  <2>22. ASSUME NEW h \in Handlers, NEW id \in IDs, MergeForm(h, id) \/ MergeSubmit(h, id)
         PROVE  TypeOK'
    <3>1. \A i \in Live : feeds[i].cand \in IDs \cup {NoFeed}
      BY <2>0 DEF Rows
    <3>2. CASE MergeForm(h, id)
      <4>1. RequestOK
        BY <2>0, <3>1, <3>2, RecordTypes DEF MergeForm, Goes, RequestTypes, Places
      <4> QED BY <2>2, <3>2, <4>1 DEF MergeForm, TypeOK
    <3>3. CASE MergeSubmit(h, id)
      <4>1. req[h] \in RequestTypes
        BY <2>0
      <4>2. ASSUME NEW i \in IDs \cup {NoFeed}, NEW j \in IDs \cup {NoFeed}
            PROVE  [req[h] EXCEPT !.at = "merge", !.id = i, !.aim = j] \in RequestTypes
        BY <4>1 DEF RequestTypes, Places
      <4>3. Ends(h) => RequestOK
        BY <2>17
      <4>4. ASSUME req[h].id \in Live,
                   Goes(h, [req[h] EXCEPT
                              !.at = "merge", !.id = id,
                              !.aim = IF id = feeds[req[h].id].cand
                                      THEN req[h].id ELSE feeds[req[h].id].cand])
            PROVE  RequestOK
        BY <2>0, <3>1, <4>2, <4>4 DEF Goes
      <4>5. RequestOK
        BY <3>3, <4>3, <4>4 DEF MergeSubmit
      <4> QED BY <2>2, <3>3, <4>5 DEF MergeSubmit, TypeOK
    <3> QED BY <2>22, <3>2, <3>3
  <2>23. ASSUME NEW h \in Handlers, Merge(h) PROVE TypeOK'
    <3> DEFINE table == [feeds EXCEPT ![req[h].id].cand = NoFeed]
    <3>1. CASE /\ req[h].id \in Live
               /\ feeds' = Deleted(table, req[h].aim)
               /\ stored' = [stored EXCEPT ![req[h].aim] = Nothing]
      <4>1. table \in [IDs -> Rows \cup {NoRow}]
        BY <2>0, <3>1 DEF Rows
      <4>2. feeds' \in [IDs -> Rows \cup {NoRow}]
        BY <3>1, <4>1, DeletedTypes
      <4>3. stored' \in [IDs -> Content \cup {Nothing}]
        BY <3>1 DEF TypeOK
      <4> QED BY <2>2, <2>17, <2>23, <4>2, <4>3 DEF Merge, TypeOK
    <3>2. CASE UNCHANGED <<feeds, stored>>
      BY <2>2, <2>17, <2>23, <3>2 DEF Merge, TypeOK
    <3> QED BY <2>23, <3>1, <3>2 DEF Merge
  <2>24. ASSUME NEW u \in URLs, Publish(u) PROVE TypeOK'
    <3>1. published' \in [URLs -> 1..MaxVer]
      BY <2>24, RefresherAssumption DEF Publish, TypeOK
    <3> QED BY <2>24, <3>1 DEF Publish, TypeOK
  <2>25. CASE Crash
    <3>1. RefreshOK
      BY <2>0, <2>3, <2>25 DEF Crash, TypeOK
    <3>2. RequestOK
      BY <2>25, RecordTypes DEF Crash
    <3> QED BY <2>25, <3>1, <3>2 DEF Crash, TypeOK, FetchTypes, RequestTypes, Places
  <2>26. CASE UNCHANGED vars
    BY <2>26 DEF vars, TypeOK
  <2>27. CASE Advance
    BY <2>5, <2>6, <2>7, <2>8, <2>9, <2>10, <2>11, <2>12, <2>13, <2>14, <2>15, <2>27
    DEF Advance, SyncLoad, IconLoad
  <2>28. ASSUME NEW h \in Handlers, Edits(h) \/ Subscriptions(h) \/ Merges(h)
         PROVE  TypeOK'
    <3>1. CASE Edits(h)
      BY <2>16, <2>18, <2>19, <3>1 DEF Edits
    <3>2. CASE Subscriptions(h)
      <4>1. 1 \in IDs
        BY RowTypes
      <4> QED BY <2>16, <2>19, <2>20, <3>2, <4>1 DEF Subscriptions
    <3>3. CASE Merges(h)
      BY <2>22, <2>23, <3>3 DEF Merges
    <3> QED BY <2>28, <3>1, <3>2, <3>3
  <2> QED
    BY <2>4, <2>21, <2>24, <2>25, <2>26, <2>27, <2>28 DEF Next
<1>3. QED
  BY <1>1, <1>2, PTL DEF Spec

--------------------------------------------------------------------------------
(* NoSelfCandidate holds because nobody holds a copy of a row, either, that  *)
(* would make the feed it belongs to its own candidate.                      *)

RefreshCopies ==
    /\ step # "idle" => row.cand # job
    /\ step = "flag" => other.id # job /\ other.row.cand = job

RequestCopies ==
    \A h \in Handlers :
        /\ req[h].at \in {"check", "save", "importSave"} => req[h].row.cand # req[h].id
        /\ req[h].at = "create" => req[h].row.cand = NoFeed

CandidateInv == NoSelfCandidate /\ RefreshCopies /\ RequestCopies

LEMMA UpdateKeepsCandidates ==
    ASSUME NoSelfCandidate, feeds \in [IDs -> Rows \cup {NoRow}],
           NEW id, NEW r \in Rows, r.cand # id,
           Update(id, r) \/ UpdateFails(id, r) \/ UNCHANGED feeds
    PROVE  NoSelfCandidate'
<1>1. CASE UNCHANGED feeds
  BY <1>1 DEF NoSelfCandidate, Live
<1>2. CASE Update(id, r)
  BY <1>2 DEF Update, CanUpdate, NoSelfCandidate, Live
<1> QED BY <1>1, <1>2 DEF UpdateFails

LEMMA DeletedKeepsCandidates ==
    ASSUME NEW table \in [IDs -> Rows \cup {NoRow}], NEW id,
           \A i \in IDs : table[i] = NoRow \/ table[i].cand # i,
           feeds' = Deleted(table, id)
    PROVE  NoSelfCandidate'
<1>1. \A i \in IDs : i # NoFeed
  BY DEF IDs, NoFeed
<1>2. \A i \in IDs : \/ feeds'[i] = NoRow
                     \/ feeds'[i] = table[i]
                     \/ feeds'[i].cand = NoFeed
  BY DeletedTypes
<1> QED BY <1>1, <1>2 DEF NoSelfCandidate, Live

\* merge.go:22 refuses to merge a feed with itself, so a feed that were its own
\* candidate would offer an action that cannot succeed: however stale the rows
\* are that refreshes and handlers write back, and whatever fails or is deleted
\* in between, no feed becomes its own candidate.
THEOREM NeverOwnCandidate == Spec => []NoSelfCandidate
<1>1. Init => CandidateInv
  <2> SUFFICES ASSUME Init PROVE CandidateInv
    OBVIOUS
  <2>1. \A i \in IDs : i # NoFeed
    BY DEF IDs, NoFeed
  <2>2. NoSelfCandidate
    BY <2>1 DEF Init, NoSelfCandidate, Live, NewRow
  <2>3. RefreshCopies /\ RequestCopies
    BY DEF Init, RefreshCopies, RequestCopies, NoRequest
  <2> QED BY <2>2, <2>3 DEF CandidateInv
<1>2. TypeOK /\ CandidateInv /\ [Next]_vars => CandidateInv'
  <2> SUFFICES ASSUME TypeOK, CandidateInv, [Next]_vars PROVE CandidateInv'
    OBVIOUS
  <2> USE DEF tableVars, refreshVars, handlerUnchanged
  <2>0. /\ feeds \in [IDs -> Rows \cup {NoRow}]
        /\ row \in Rows /\ other \in [id : IDs, row : Rows]
        /\ fetched \in FetchTypes /\ req \in [Handlers -> RequestTypes]
        /\ \A i \in Live : i \in IDs /\ feeds[i] \in Rows /\ feeds[i].cand # i
        /\ \A i \in IDs : i # NoFeed
    <3>1. /\ feeds \in [IDs -> Rows \cup {NoRow}]
          /\ row \in Rows /\ other \in [id : IDs, row : Rows]
          /\ fetched \in FetchTypes /\ req \in [Handlers -> RequestTypes]
      BY DEF TypeOK, FetchTypes, RequestTypes, Places
    <3>2. \A i \in Live : i \in IDs /\ feeds[i] \in Rows /\ feeds[i].cand # i
      BY <3>1 DEF Live, CandidateInv, NoSelfCandidate
    <3>3. \A i \in IDs : i # NoFeed
      BY DEF IDs, NoFeed
    <3> QED BY <3>1, <3>2, <3>3
  <2>1. UNCHANGED feeds => NoSelfCandidate'
    BY DEF CandidateInv, NoSelfCandidate, Live
  <2>2. UNCHANGED refreshVars => RefreshCopies'
    BY DEF CandidateInv, RefreshCopies
  <2>3. UNCHANGED req => RequestCopies'
    BY DEF CandidateInv, RequestCopies
  <2>4. Return => RefreshCopies'
    BY DEF Return, RefreshCopies
  <2>5. ASSUME NEW label, GoOn(label), step # "idle", label # "flag"
        PROVE  RefreshCopies'
    BY <2>5 DEF GoOn, CandidateInv, RefreshCopies
  <2>6. ASSUME NEW id \in IDs, Begin(id) PROVE CandidateInv'
    <3>1. RefreshCopies'
      BY <2>0, <2>6 DEF Begin, RefreshCopies
    <3> QED BY <2>1, <2>3, <2>6, <3>1 DEF Begin, CandidateInv
  <2>7. CASE FetchFails \/ FetchAnswers
    <3>1. RefreshCopies'
      BY <2>7 DEF FetchFails, FetchAnswers, CandidateInv, RefreshCopies
    <3> QED BY <2>1, <2>3, <2>7, <3>1 DEF FetchFails, FetchAnswers, CandidateInv
  <2>8. CASE Collide
    <3>1. PICK o \in Live \ {job} :
              /\ row' = [row EXCEPT !.cand = o]
              /\ other' = [id |-> o, row |-> [feeds[o] EXCEPT !.cand = job]]
      BY <2>8 DEF Collide
    <3>2. row'.cand = o /\ other'.id = o /\ other'.row.cand = job
      BY <2>0, <3>1 DEF Rows
    <3>3. RefreshCopies'
      BY <2>8, <3>2 DEF Collide, RefreshCopies
    <3> QED BY <2>1, <2>3, <2>8, <3>3 DEF Collide, CandidateInv
  <2>9. CASE Adopt
    <3>1. row'.cand = row.cand
      BY <2>0, <2>9 DEF Adopt, Rows
    <3>2. RefreshCopies'
      BY <2>9, <3>1 DEF Adopt, CandidateInv, RefreshCopies
    <3> QED BY <2>1, <2>3, <2>9, <3>2 DEF Adopt, CandidateInv
  <2>10. CASE Flag
    <3>1. other.row \in Rows /\ other.row.cand # other.id
      BY <2>0, <2>10 DEF Flag, CandidateInv, RefreshCopies
    <3>2. NoSelfCandidate'
      BY <2>0, <2>10, <3>1, UpdateKeepsCandidates DEF Flag, CandidateInv
    <3>3. RefreshCopies'
      BY <2>5, <2>10 DEF Flag
    <3> QED BY <2>3, <2>10, <3>2, <3>3 DEF Flag, CandidateInv
  <2>11. CASE Save
    <3>1. Outcome(row) \in Rows /\ Outcome(row).cand # job
      BY <2>0, <2>11, OutcomeTypes DEF Save, CandidateInv, RefreshCopies
    <3>2. NoSelfCandidate'
      BY <2>0, <2>11, <3>1, UpdateKeepsCandidates DEF Save, CandidateInv
    <3>3. RefreshCopies'
      BY <2>4, <2>5, <2>11 DEF Save
    <3> QED BY <2>3, <2>11, <3>2, <3>3 DEF Save, CandidateInv
  <2>12. ASSUME NEW from, NEW to \in {"syncMeta", "iconSave"}, NEW needed,
                Load(from, to, needed)
         PROVE  CandidateInv'
    <3>1. RefreshCopies'
      BY <2>0, <2>4, <2>12 DEF Load, RefreshCopies
    <3> QED BY <2>1, <2>3, <2>12, <3>1 DEF Load, CandidateInv
  <2>13. CASE SyncMeta
    <3>1. row.cand # job
      BY <2>13 DEF SyncMeta, CandidateInv, RefreshCopies
    <3>2. NoSelfCandidate'
      BY <2>0, <2>13, <3>1, UpdateKeepsCandidates DEF SyncMeta, CandidateInv
    <3>3. RefreshCopies'
      BY <2>4, <2>5, <2>13 DEF SyncMeta
    <3> QED BY <2>3, <2>13, <3>2, <3>3 DEF SyncMeta, CandidateInv
  <2>14. CASE StoreArticles
    <3>1. RefreshCopies'
      BY <2>5, <2>14 DEF StoreArticles
    <3> QED BY <2>1, <2>3, <2>14, <3>1 DEF StoreArticles, CandidateInv
  <2>15. CASE SyncFails
    BY <2>1, <2>3, <2>4, <2>15 DEF SyncFails, CandidateInv
  <2>16. CASE IconSave
    <3>1. [row EXCEPT !.icon = TRUE] \in Rows /\ [row EXCEPT !.icon = TRUE].cand # job
      BY <2>0, <2>16 DEF IconSave, CandidateInv, RefreshCopies, Rows
    <3>2. NoSelfCandidate'
      BY <2>0, <2>16, <3>1, UpdateKeepsCandidates DEF IconSave, CandidateInv
    <3> QED BY <2>3, <2>4, <2>16, <3>2 DEF IconSave, CandidateInv
  \* A handler that stores a request changes the copies of that request only.
  <2>17. ASSUME NEW h \in Handlers, NEW q, Goes(h, q),
                q.at \in {"check", "save", "importSave"} => q.row.cand # q.id,
                q.at = "create" => q.row.cand = NoFeed
         PROVE  RequestCopies'
    BY <2>0, <2>17 DEF Goes, CandidateInv, RequestCopies
  <2>18. ASSUME NEW h \in Handlers, Ends(h) PROVE RequestCopies'
    BY <2>17, <2>18 DEF Ends, NoRequest
  <2>19. ASSUME NEW h \in Handlers, NEW id \in IDs, NEW u \in URLs, NEW d \in Folders,
                EditLoad(h, id, u, d)
         PROVE  CandidateInv'
    <3>1. id \in Live /\ [feeds[id] EXCEPT !.url = u, !.folder = d].cand # id
      BY <2>0, <2>19 DEF EditLoad, Rows
    <3>2. RequestCopies'
      BY <2>17, <2>19, <3>1 DEF EditLoad
    <3> QED BY <2>1, <2>2, <2>19, <3>2 DEF EditLoad, CandidateInv
  <2>20. ASSUME NEW h \in Handlers, EditCheck(h) PROVE CandidateInv'
    <3>1. [req[h] EXCEPT !.at = "save"].row.cand # [req[h] EXCEPT !.at = "save"].id
      BY <2>0, <2>20 DEF EditCheck, CandidateInv, RequestCopies, RequestTypes
    <3>2. [req[h] EXCEPT !.at = "save"].at = "save"
      BY <2>0 DEF RequestTypes
    <3>3. RequestCopies'
      BY <2>17, <2>18, <2>20, <3>1, <3>2 DEF EditCheck
    <3> QED BY <2>1, <2>2, <2>20, <3>3 DEF EditCheck, CandidateInv
  <2>21. ASSUME NEW h \in Handlers, EditSave(h) \/ ImportSave(h) PROVE CandidateInv'
    <3>1. req[h].row \in Rows /\ req[h].row.cand # req[h].id
      BY <2>0, <2>21 DEF EditSave, ImportSave, CandidateInv, RequestCopies, RequestTypes
    <3>2. NoSelfCandidate'
      BY <2>0, <2>21, <3>1, UpdateKeepsCandidates DEF EditSave, ImportSave, CandidateInv
    <3> QED BY <2>2, <2>18, <2>21, <3>2 DEF EditSave, ImportSave, CandidateInv
  <2>22. ASSUME NEW h \in Handlers, NEW u \in URLs, NEW d \in Folders, Subscribe(h, u, d)
         PROVE  CandidateInv'
    <3>1. ASSUME NEW i \in Live
          PROVE  [feeds[i] EXCEPT !.folder = d].cand # i
      BY <2>0, <3>1 DEF Rows
    <3> DEFINE new == [NoRequest EXCEPT !.at = "create", !.row = NewRow(u, d)]
    <3>2. new.at = "create" /\ new.row.cand = NoFeed
      BY DEF NoRequest, NewRow
    <3> HIDE DEF new
    <3>3. CASE Goes(h, new)
      <4>1. RequestCopies'
        BY <2>17, <3>2, <3>3
      <4> QED BY <2>1, <2>2, <2>22, <4>1 DEF Subscribe, CandidateInv
    <3>4. CASE \E i \in Live :
                   Goes(h, [at |-> "importSave", id |-> i,
                            row |-> [feeds[i] EXCEPT !.folder = d], aim |-> NoFeed])
      <4>1. RequestCopies'
        BY <2>17, <3>1, <3>4
      <4> QED BY <2>1, <2>2, <2>22, <4>1 DEF Subscribe, CandidateInv
    <3> QED BY <2>22, <3>3, <3>4 DEF Subscribe, new
  <2>23. ASSUME NEW h \in Handlers, SubscribeCreate(h) PROVE CandidateInv'
    <3>1. req[h].row \in Rows /\ req[h].row.cand = NoFeed
      BY <2>0, <2>23 DEF SubscribeCreate, CandidateInv, RequestCopies, RequestTypes
    <3>2. NoSelfCandidate'
      <4>1. CASE Create(req[h].row)
        BY <2>0, <3>1, <4>1 DEF Create, CandidateInv, NoSelfCandidate, Live
      <4> QED BY <2>1, <2>23, <4>1 DEF SubscribeCreate
    <3> QED BY <2>2, <2>18, <2>23, <3>2 DEF SubscribeCreate, CandidateInv
  <2>24. ASSUME NEW id \in IDs, Delete(id) PROVE CandidateInv'
    <3>1. \A i \in IDs : feeds[i] = NoRow \/ feeds[i].cand # i
      BY <2>0 DEF Live
    <3>2. NoSelfCandidate'
      BY <2>0, <2>24, <3>1, DeletedKeepsCandidates DEF Delete
    <3> QED BY <2>2, <2>3, <2>24, <3>2 DEF Delete, CandidateInv
  <2>25. ASSUME NEW h \in Handlers, NEW id \in IDs, MergeForm(h, id) PROVE CandidateInv'
    <3> DEFINE q == [NoRequest EXCEPT !.at = "form", !.id = id, !.aim = feeds[id].cand]
    <3>1. q.at = "form"
      BY DEF NoRequest
    <3> HIDE DEF q
    <3>2. Goes(h, q)
      BY <2>25 DEF MergeForm, q
    <3>3. RequestCopies'
      BY <2>17, <3>1, <3>2
    <3> QED BY <2>1, <2>2, <2>25, <3>3 DEF MergeForm, CandidateInv
  <2>26. ASSUME NEW h \in Handlers, NEW id \in IDs, MergeSubmit(h, id) PROVE CandidateInv'
    <3> DEFINE cand == feeds[req[h].id].cand
               q == [req[h] EXCEPT !.at = "merge", !.id = id,
                                   !.aim = IF id = cand THEN req[h].id ELSE cand]
    <3>1. q.at = "merge"
      BY <2>0 DEF RequestTypes
    <3>2. Goes(h, q) \/ Ends(h)
      BY <2>26 DEF MergeSubmit
    <3> HIDE DEF q
    <3>3. RequestCopies'
      BY <2>17, <2>18, <3>1, <3>2
    <3> QED BY <2>1, <2>2, <2>26, <3>3 DEF MergeSubmit, CandidateInv
  <2>27. ASSUME NEW h \in Handlers, Merge(h) PROVE CandidateInv'
    <3> DEFINE table == [feeds EXCEPT ![req[h].id].cand = NoFeed]
    <3>1. NoSelfCandidate'
      <4>1. ASSUME req[h].id \in Live, feeds' = Deleted(table, req[h].aim)
            PROVE  NoSelfCandidate'
        <5>1. table \in [IDs -> Rows \cup {NoRow}]
          BY <2>0, <4>1 DEF Rows
        <5>2. \A i \in IDs : table[i] = NoRow \/ table[i].cand # i
          BY <2>0, <4>1 DEF Live, Rows
        <5> HIDE DEF table
        <5> QED BY <4>1, <5>1, <5>2, DeletedKeepsCandidates
      <4> QED BY <2>1, <2>27, <4>1 DEF Merge
    <3> QED BY <2>2, <2>18, <2>27, <3>1 DEF Merge, CandidateInv
  <2>28. ASSUME NEW u \in URLs, Publish(u) PROVE CandidateInv'
    BY <2>1, <2>2, <2>3, <2>28 DEF Publish, CandidateInv
  <2>29. CASE Crash
    <3>1. RequestCopies'
      BY <2>29 DEF Crash, RequestCopies, NoRequest
    <3> QED BY <2>1, <2>4, <2>29, <3>1 DEF Crash, CandidateInv
  <2>30. CASE UNCHANGED vars
    BY <2>1, <2>2, <2>3, <2>30 DEF vars, CandidateInv
  <2>31. CASE Advance
    BY <2>7, <2>8, <2>9, <2>10, <2>11, <2>12, <2>13, <2>14, <2>15, <2>16, <2>31
    DEF Advance, SyncLoad, IconLoad
  <2>32. ASSUME NEW h \in Handlers, Edits(h) \/ Subscriptions(h) \/ Merges(h)
         PROVE  CandidateInv'
    <3>1. CASE Edits(h)
      BY <2>19, <2>20, <2>21, <3>1 DEF Edits
    <3>2. CASE Subscriptions(h)
      BY <2>21, <2>22, <2>23, <3>2 DEF Subscriptions
    <3>3. CASE Merges(h)
      BY <2>25, <2>26, <2>27, <3>3 DEF Merges
    <3> QED BY <2>32, <3>1, <3>2, <3>3
  <2> QED
    BY <2>6, <2>24, <2>28, <2>29, <2>30, <2>31, <2>32 DEF Next
<1>3. CandidateInv => NoSelfCandidate
  BY DEF CandidateInv
<1>4. QED
  BY <1>1, <1>2, <1>3, TypeCorrect, PTL DEF Spec

--------------------------------------------------------------------------------
(* What the table says of the web. *)

\* The parts of TypeOK that the proofs below use.
Tables == [IDs -> Rows \cup {NoRow}]

LEMMA Typed ==
    ASSUME TypeOK
    PROVE  /\ feeds \in Tables /\ stored \in [IDs -> Content \cup {Nothing}]
           /\ row \in Rows /\ other \in [id : IDs, row : Rows] /\ job \in IDs
           /\ fetched \in FetchTypes /\ req \in [Handlers -> RequestTypes]
           /\ nextId \in Nat
           /\ \A i \in Live : i \in IDs /\ feeds[i] \in Rows
           /\ \A i \in IDs : i \in Nat /\ (i \in Live <=> feeds[i] # NoRow)
  BY DEF TypeOK, FetchTypes, RequestTypes, Places, Live, Tables, IDs

\* What a write of the table does to it: a row is replaced under the constraints,
\* or one is added, or one goes and others lose their candidate.
Replaced == \E id \in IDs, r \in Rows : Update(id, r)
Added == \E r \in Rows : Create(r)
Removed ==
    \E id \in IDs : \A i \in IDs :
        /\ i = id => feeds'[i] = NoRow
        /\ feeds[i] = NoRow => feeds'[i] = NoRow
        /\ i # id /\ feeds[i] # NoRow =>
               /\ feeds'[i] \in Rows
               /\ feeds'[i].url = feeds[i].url /\ feeds'[i].val = feeds[i].val

LEMMA RemovedBy ==
    ASSUME NEW table \in Tables, NEW id \in IDs, feeds' = Deleted(table, id), feeds \in Tables,
           \A i \in IDs : \/ table[i] = feeds[i]
                          \/ /\ feeds[i] # NoRow /\ table[i] \in Rows
                             /\ table[i].url = feeds[i].url /\ table[i].val = feeds[i].val
    PROVE  Removed
<1>1. \A r \in Rows : /\ [r EXCEPT !.cand = NoFeed] \in Rows
                      /\ [r EXCEPT !.cand = NoFeed].url = r.url
                      /\ [r EXCEPT !.cand = NoFeed].val = r.val
  BY DEF Rows
<1>2. NoRow \notin Rows
  BY RefresherAssumption
<1>3. ASSUME NEW i \in IDs
      PROVE  /\ i = id => feeds'[i] = NoRow
             /\ feeds[i] = NoRow => feeds'[i] = NoRow
             /\ i # id /\ feeds[i] # NoRow =>
                    /\ feeds'[i] \in Rows
                    /\ feeds'[i].url = feeds[i].url /\ feeds'[i].val = feeds[i].val
  BY <1>1, <1>2 DEF Deleted, Tables
<1> QED BY <1>3 DEF Removed

LEMMA MergeRemoves ==
    ASSUME TypeOK, NEW h \in Handlers, Merge(h)
    PROVE  UNCHANGED feeds \/ Removed
<1> DEFINE s == req[h].id
           table == [feeds EXCEPT ![s].cand = NoFeed]
<1>1. \/ UNCHANGED feeds
      \/ s \in Live /\ req[h].aim \in Live /\ feeds' = Deleted(table, req[h].aim)
  BY DEF Merge
<1>2. ASSUME s \in Live PROVE table \in Tables /\ feeds[s] \in Rows
  BY <1>2, Typed DEF Tables, Rows
<1>3. ASSUME s \in Live, NEW i \in IDs
      PROVE  \/ table[i] = feeds[i]
             \/ /\ feeds[i] # NoRow /\ table[i] \in Rows
                /\ table[i].url = feeds[i].url /\ table[i].val = feeds[i].val
  BY <1>3, <1>2, Typed DEF Tables, Rows, Live
<1> HIDE DEF table
<1> QED BY <1>1, <1>2, <1>3, RemovedBy, Typed

LEMMA TableWrites ==
    ASSUME TypeOK, [Next]_vars
    PROVE  \/ feeds' = feeds /\ nextId' = nextId
           \/ Replaced /\ nextId' = nextId
           \/ Added
           \/ Removed /\ nextId' = nextId
<1> USE DEF tableVars, refreshVars, handlerUnchanged
<1> DEFINE Claim == \/ feeds' = feeds /\ nextId' = nextId
                    \/ Replaced /\ nextId' = nextId
                    \/ Added
                    \/ Removed /\ nextId' = nextId
<1>1. ASSUME NEW id \in IDs, NEW r \in Rows, Update(id, r) \/ UpdateFails(id, r),
             nextId' = nextId
      PROVE  Claim
  BY <1>1 DEF UpdateFails, Replaced
<1>2. CASE Advance
  <2>1. CASE \/ FetchAnswers \/ FetchFails \/ Collide \/ Adopt \/ SyncLoad
             \/ StoreArticles \/ SyncFails \/ IconLoad
    BY <2>1 DEF FetchAnswers, FetchFails, Collide, Adopt, SyncLoad, StoreArticles,
                SyncFails, IconLoad, Load
  <2>2. CASE Flag
    BY <1>1, <2>2, Typed DEF Flag
  <2>3. CASE Save
    BY <1>1, <2>3, Typed, OutcomeTypes DEF Save
  <2>4. CASE SyncMeta
    BY <1>1, <2>4, Typed DEF SyncMeta
  <2>5. CASE IconSave
    <3>1. [row EXCEPT !.icon = TRUE] \in Rows
      BY Typed DEF Rows
    <3> QED BY <1>1, <2>5, <3>1, Typed DEF IconSave
  <2> QED BY <1>2, <2>1, <2>2, <2>3, <2>4, <2>5 DEF Advance
<1>3. ASSUME NEW h \in Handlers, Edits(h) \/ Subscriptions(h) \/ Merges(h)
      PROVE  Claim
  <2>1. req[h].row \in Rows
    BY Typed DEF RequestTypes
  <2>2. CASE EditSave(h) \/ ImportSave(h)
    <3>1. CASE UNCHANGED feeds
      BY <2>2, <3>1 DEF EditSave, ImportSave
    <3>2. CASE Update(req[h].id, req[h].row)
      BY <2>1, <2>2, <3>2, Typed DEF EditSave, ImportSave, Update, CanUpdate, Replaced
    <3> QED BY <2>2, <3>1, <3>2 DEF EditSave, ImportSave, UpdateFails
  <2>3. CASE SubscribeCreate(h)
    BY <2>1, <2>3 DEF SubscribeCreate, Added
  <2>4. CASE Merge(h)
    BY <2>4, MergeRemoves DEF Merge
  <2>5. CASE \/ \E id \in IDs, u \in URLs, d \in Folders : EditLoad(h, id, u, d)
             \/ \E u \in URLs, d \in Folders : Subscribe(h, u, d)
             \/ EditCheck(h)
             \/ \E id \in IDs : MergeForm(h, id) \/ MergeSubmit(h, id)
    BY <2>5 DEF EditLoad, Subscribe, EditCheck, MergeForm, MergeSubmit
  <2> QED BY <1>3, <2>2, <2>3, <2>4, <2>5 DEF Edits, Subscriptions, Merges
<1>4. ASSUME NEW id \in IDs, Begin(id) \/ Delete(id) PROVE Claim
  <2>1. CASE Begin(id)
    BY <2>1 DEF Begin
  <2>2. CASE Delete(id)
    BY <2>2, RemovedBy, Typed DEF Delete
  <2> QED BY <1>4, <2>1, <2>2
<1>5. CASE (\E u \in URLs : Publish(u)) \/ Crash \/ UNCHANGED vars
  BY <1>5 DEF Publish, Crash, vars
<1> QED BY <1>2, <1>3, <1>4, <1>5 DEF Next

\* The UNIQUE constraint on the URL, as the table's writers see it.
URLsUnique ==
    \A i, j \in Live : (feeds[i].url = feeds[j].url) => (i = j)

LEMMA NoTwoShareURL == Spec => []URLsUnique
<1>1. Init => URLsUnique
  BY RefresherAssumption DEF Init, URLsUnique, Live, NewRow, IDs
<1>2. TypeOK /\ URLsUnique /\ [Next]_vars => URLsUnique'
  <2> SUFFICES ASSUME TypeOK, URLsUnique, [Next]_vars PROVE URLsUnique'
    OBVIOUS
  <2>1. CASE UNCHANGED feeds
    BY <2>1 DEF URLsUnique, Live
  <2>2. CASE Replaced
    <3>1. PICK id \in IDs, r \in Rows : Update(id, r)
      BY <2>2 DEF Replaced
    <3> QED BY <3>1, Typed DEF Update, CanUpdate, URLsUnique, Live, Tables
  <2>3. CASE Added
    <3>1. PICK r \in Rows : Create(r)
      BY <2>3 DEF Added
    <3> QED BY <3>1, Typed DEF Create, Taken, URLsUnique, Live, Tables
  <2>4. CASE Removed
    BY <2>4 DEF Removed, URLsUnique, Live
  <2> QED BY <2>1, <2>2, <2>3, <2>4, TableWrites
<1>3. QED
  BY <1>1, <1>2, TypeCorrect, PTL DEF Spec

--------------------------------------------------------------------------------
(* Where a feed's redirects end never changes while its URL is not edited,     *)
(* however old the row is that is written back: all copies agree on it.        *)

SameHome(id, r) == id \in Live => Target[r.url] = Target[feeds[id].url]

Holding == {"check", "save", "importSave"}

\* IDs are given out once, and an ID that was never given out has no articles.
TableHomes ==
    /\ ArticlesFromOwnURL
    /\ \A i \in Live : i < nextId
    /\ \A i \in IDs : i >= nextId => stored[i] = Nothing

RefreshHomes ==
    /\ step # "idle" => job < nextId /\ SameHome(job, row)
    /\ step = "flag" => other.id < nextId /\ SameHome(other.id, other.row)
    /\ (\/ step \in {"lookup", "flag", "syncLoad", "syncMeta", "articles"}
        \/ step = "save" /\ fetched.result = "ok") => fetched.final = Target[row.url]

RequestHomes ==
    \A h \in Handlers :
        req[h].at \in Holding => req[h].id < nextId /\ SameHome(req[h].id, req[h].row)

HomeInv == TableHomes /\ RefreshHomes /\ RequestHomes

\* A step after which each row is new or leads to where it led.
KeepsHomes ==
    /\ \A i \in IDs : feeds'[i] # NoRow =>
           \/ i = nextId /\ nextId' = nextId + 1
           \/ feeds[i] # NoRow /\ Target[feeds'[i].url] = Target[feeds[i].url]
    /\ feeds' \in Tables
    /\ nextId' \in {nextId, nextId + 1}

LEMMA WritesKeepHomes ==
    ASSUME TypeOK, feeds' \in Tables,
           \/ feeds' = feeds /\ nextId' = nextId
           \/ /\ \E id \in IDs, r \in Rows : Update(id, r) /\ SameHome(id, r)
              /\ nextId' = nextId
           \/ Added
           \/ Removed /\ nextId' = nextId
    PROVE  KeepsHomes
<1>1. CASE feeds' = feeds /\ nextId' = nextId
  BY <1>1 DEF KeepsHomes
<1>2. CASE (\E id \in IDs, r \in Rows : Update(id, r) /\ SameHome(id, r)) /\ nextId' = nextId
  <2>1. PICK id \in IDs, r \in Rows : Update(id, r) /\ SameHome(id, r)
    BY <1>2
  <2> QED BY <1>2, <2>1, Typed DEF Update, CanUpdate, SameHome, KeepsHomes, Tables
<1>3. CASE Added
  <2>1. PICK r \in Rows : Create(r)
    BY <1>3 DEF Added
  <2> QED BY <2>1, Typed DEF Create, KeepsHomes, Tables
<1>4. CASE Removed /\ nextId' = nextId
  BY <1>4 DEF Removed, KeepsHomes
<1> QED BY <1>1, <1>2, <1>3, <1>4

\* A copy stays good for a feed that there was when it was made.
LEMMA CopiesStay ==
    ASSUME TypeOK, KeepsHomes, NEW id \in IDs \cup {NoFeed}, NEW r, id < nextId, SameHome(id, r)
    PROVE  id < nextId' /\ (feeds'[id] # NoRow /\ id \in IDs
                              => Target[r.url] = Target[feeds'[id].url])
<1>1. id \in Nat /\ nextId \in Nat
  BY Typed DEF NoFeed
<1> QED BY <1>1, Typed DEF KeepsHomes, SameHome

\* The three parts of HomeInv after a step that leaves their own variables alone.
LEMMA TableHomesKept ==
    ASSUME TypeOK, TableHomes, KeepsHomes,
           \A i \in IDs : stored'[i] = stored[i] \/ stored'[i] = Nothing
    PROVE  TableHomes'
<1>1. \A i \in IDs : i \in Live' => i < nextId'
  BY Typed DEF KeepsHomes, TableHomes, Live
<1>2. \A i \in IDs : i >= nextId' => stored'[i] = Nothing
  BY Typed DEF KeepsHomes, TableHomes
<1>3. ASSUME NEW i \in IDs, feeds'[i] # NoRow, stored'[i] # Nothing
      PROVE  stored'[i].src = Target[feeds'[i].url]
  BY <1>3, Typed DEF KeepsHomes, TableHomes, ArticlesFromOwnURL
<1> QED BY <1>1, <1>2, <1>3 DEF TableHomes, ArticlesFromOwnURL, Live

LEMMA RefreshHomesKept ==
    ASSUME TypeOK, RefreshHomes, KeepsHomes, UNCHANGED refreshVars
    PROVE  RefreshHomes'
<1>1. job \in IDs /\ other.id \in IDs
  BY Typed
<1>2. step # "idle" => job < nextId' /\ (feeds'[job] # NoRow => Target[row.url] = Target[feeds'[job].url])
  BY <1>1, CopiesStay DEF RefreshHomes
<1>3. step = "flag" => other.id < nextId' /\ (feeds'[other.id] # NoRow
                          => Target[other.row.url] = Target[feeds'[other.id].url])
  BY <1>1, CopiesStay DEF RefreshHomes
<1> QED BY <1>1, <1>2, <1>3 DEF RefreshHomes, SameHome, Live, refreshVars

\* A request is stored whose copy, if it holds one, is good.
LEMMA RequestHomesKept ==
    ASSUME TypeOK, RequestHomes, KeepsHomes,
           \/ UNCHANGED req
           \/ \E h \in Handlers, q \in RequestTypes :
                  /\ Goes(h, q)
                  /\ q.at \in Holding => q.id < nextId /\ SameHome(q.id, q.row)
    PROVE  RequestHomes'
<1>1. ASSUME NEW q \in RequestTypes, q.id < nextId, SameHome(q.id, q.row)
      PROVE  /\ q.id < nextId'
             /\ q.id \in IDs /\ feeds'[q.id] # NoRow => Target[q.row.url] = Target[feeds'[q.id].url]
  BY <1>1, CopiesStay DEF RequestTypes
<1>2. ASSUME NEW h \in Handlers, req'[h].at \in Holding
      PROVE  /\ req'[h] \in RequestTypes
             /\ req'[h].id < nextId /\ SameHome(req'[h].id, req'[h].row)
  BY <1>2, Typed DEF RequestHomes, Goes
<1> QED BY <1>1, <1>2 DEF RequestHomes, SameHome, Live

LEMMA RefreshKeepsHomes ==
    ASSUME TypeOK, TypeOK', HomeInv, Advance
    PROVE  KeepsHomes /\ HomeInv'
<1> USE DEF tableVars, refreshVars
<1>1. TableHomes /\ RefreshHomes /\ RequestHomes
  BY DEF HomeInv
<1>2. feeds' \in Tables
  BY DEF TypeOK, Tables
<1>3. ASSUME feeds' = feeds, nextId' = nextId PROVE KeepsHomes
  BY <1>2, <1>3, WritesKeepHomes
<1>4. ASSUME NEW id \in IDs, NEW r \in Rows, SameHome(id, r), nextId' = nextId,
             Update(id, r) \/ UpdateFails(id, r) \/ UNCHANGED feeds
      PROVE  KeepsHomes
  <2>1. CASE Update(id, r)
    BY <1>2, <1>4, <2>1, WritesKeepHomes
  <2> QED BY <1>3, <1>4, <2>1 DEF UpdateFails
\* What is left to show of a step of Refresh.
<1>5. ASSUME KeepsHomes, UNCHANGED req, RefreshHomes',
             \A i \in IDs : stored'[i] = stored[i] \/ stored'[i] = Nothing
      PROVE  KeepsHomes /\ HomeInv'
  BY <1>1, <1>5, TableHomesKept, RequestHomesKept DEF HomeInv
<1>6. ASSUME step' = "idle" PROVE RefreshHomes'
  BY <1>6 DEF RefreshHomes
<1>7. \A r \in Rows : /\ [r EXCEPT !.icon = TRUE] \in Rows
                      /\ [r EXCEPT !.icon = TRUE].url = r.url
  BY DEF Rows
<1>8. Outcome(row) \in Rows /\ Outcome(row).url = row.url
  BY Typed, OutcomeTypes DEF Outcome, FetchTypes, Results, Rows
<1>9. ASSUME KeepsHomes, step # "idle"
      PROVE  /\ job < nextId'
             /\ feeds'[job] # NoRow => Target[row.url] = Target[feeds'[job].url]
  BY <1>1, <1>9, CopiesStay, Typed DEF RefreshHomes
<1>10. CASE FetchFails \/ FetchAnswers
  <2>1. KeepsHomes
    BY <1>3, <1>10 DEF FetchFails, FetchAnswers
  <2>2. RefreshHomes'
    BY <1>9, <1>10, <2>1, Typed
    DEF FetchFails, FetchAnswers, RefreshHomes, SameHome, Live, Rows
  <2> QED BY <1>5, <1>10, <2>1, <2>2 DEF FetchFails, FetchAnswers
<1>11. CASE Collide
  <2>1. PICK o \in Live \ {job} :
            /\ row' = [row EXCEPT !.cand = o]
            /\ other' = [id |-> o, row |-> [feeds[o] EXCEPT !.cand = job]]
    BY <1>11 DEF Collide
  <2>2. row'.url = row.url /\ other'.id = o /\ other'.row.url = feeds[o].url
    BY <2>1, Typed DEF Rows
  <2>3. o < nextId
    BY <1>1 DEF TableHomes
  <2>4. KeepsHomes
    BY <1>3, <1>11 DEF Collide
  <2>5. RefreshHomes'
    BY <1>1, <1>9, <1>11, <2>2, <2>3, <2>4, Typed DEF Collide, RefreshHomes, SameHome, Live
  <2> QED BY <1>5, <1>11, <2>4, <2>5 DEF Collide
<1>12. CASE Adopt
  <2>1. row'.url = fetched.final /\ fetched.final = Target[row.url]
    BY <1>1, <1>12, Typed DEF Adopt, RefreshHomes, Rows
  <2>2. Target[fetched.final] = fetched.final
    BY <2>1, Typed, RefresherAssumption DEF Rows
  <2>3. KeepsHomes
    BY <1>3, <1>12 DEF Adopt
  <2>4. RefreshHomes'
    BY <1>9, <1>12, <2>1, <2>2, <2>3 DEF Adopt, RefreshHomes, SameHome, Live
  <2> QED BY <1>5, <1>12, <2>3, <2>4 DEF Adopt
<1>13. CASE Flag
  <2>1. KeepsHomes
    BY <1>1, <1>4, <1>13, Typed DEF Flag, RefreshHomes
  <2>2. RefreshHomes'
    BY <1>1, <1>9, <1>13, <2>1 DEF Flag, GoOn, RefreshHomes, SameHome, Live
  <2> QED BY <1>5, <1>13, <2>1, <2>2 DEF Flag, GoOn
<1>14. CASE Save
  <2>1. SameHome(job, Outcome(row))
    BY <1>1, <1>8, <1>14 DEF Save, RefreshHomes, SameHome
  <2>2. KeepsHomes
    BY <1>4, <1>8, <1>14, <2>1, Typed DEF Save
  <2>3. RefreshHomes'
    BY <1>1, <1>6, <1>9, <1>14, <2>2 DEF Save, Return, GoOn, RefreshHomes, SameHome, Live
  <2> QED BY <1>5, <1>14, <2>2, <2>3 DEF Save
<1>15. ASSUME NEW needed, Load("syncLoad", "syncMeta", needed) \/ Load("iconLoad", "iconSave", needed)
       PROVE  KeepsHomes /\ HomeInv'
  <2>1. KeepsHomes
    BY <1>3, <1>15 DEF Load
  <2>2. step = "syncLoad" /\ job \in Live => fetched.final = Target[feeds[job].url]
    BY <1>1 DEF RefreshHomes, SameHome
  <2>3. RefreshHomes'
    BY <1>1, <1>6, <1>9, <1>15, <2>1, <2>2, Typed DEF Load, Return, RefreshHomes, SameHome, Live
  <2> QED BY <1>5, <1>15, <2>1, <2>3 DEF Load
<1>16. CASE SyncMeta
  <2>1. KeepsHomes
    BY <1>1, <1>4, <1>16, Typed DEF SyncMeta, RefreshHomes
  <2>2. RefreshHomes'
    BY <1>1, <1>6, <1>9, <1>16, <2>1 DEF SyncMeta, Return, GoOn, RefreshHomes, SameHome, Live
  <2> QED BY <1>5, <1>16, <2>1, <2>2 DEF SyncMeta
<1>17. CASE StoreArticles
  <2>1. KeepsHomes
    BY <1>3, <1>17 DEF StoreArticles
  <2>2. RefreshHomes'
    BY <1>1, <1>9, <1>17, <2>1 DEF StoreArticles, GoOn, RefreshHomes, SameHome, Live
  \* The document comes from where the feed's URL leads.
  <2>3. fetched.final = Target[feeds[job].url]
    BY <1>1, <1>17 DEF StoreArticles, RefreshHomes, SameHome
  <2>4. stored' = [stored EXCEPT ![job] = [src |-> fetched.final, ver |-> fetched.ver]]
    BY <1>17 DEF StoreArticles
  <2>5. \A i \in Live : stored'[i] # Nothing => stored'[i].src = Target[feeds[i].url]
    BY <1>1, <2>3, <2>4, Typed DEF TableHomes, ArticlesFromOwnURL
  <2>6. \A i \in IDs : i >= nextId => stored'[i] = Nothing
    BY <1>1, <1>17, <2>4, Typed DEF StoreArticles, TableHomes, RefreshHomes
  <2>7. TableHomes'
    BY <1>1, <1>17, <2>5, <2>6 DEF StoreArticles, TableHomes, ArticlesFromOwnURL, Live
  <2>8. RequestHomes'
    BY <1>1, <1>17, <2>1, RequestHomesKept DEF StoreArticles
  <2> QED BY <2>1, <2>2, <2>7, <2>8 DEF HomeInv
<1>18. CASE SyncFails
  <2>1. KeepsHomes
    BY <1>3, <1>18 DEF SyncFails
  <2> QED BY <1>5, <1>6, <1>18, <2>1 DEF SyncFails, Return
<1>19. CASE IconSave
  <2>1. SameHome(job, [row EXCEPT !.icon = TRUE])
    BY <1>1, <1>7, <1>19, Typed DEF IconSave, RefreshHomes, SameHome
  <2>2. KeepsHomes
    BY <1>4, <1>7, <1>19, <2>1, Typed DEF IconSave
  <2> QED BY <1>5, <1>6, <1>19, <2>2 DEF IconSave, Return
<1> QED
  BY <1>10, <1>11, <1>12, <1>13, <1>14, <1>15, <1>16, <1>17, <1>18, <1>19
  DEF Advance, SyncLoad, IconLoad

LEMMA RequestsKeepHomes ==
    ASSUME TypeOK, TypeOK', HomeInv, "edit" \notin Ops, NEW h \in Handlers,
           Edits(h) \/ Subscriptions(h) \/ Merges(h)
    PROVE  KeepsHomes /\ HomeInv'
<1> USE DEF tableVars, handlerUnchanged
<1>1. TableHomes /\ RefreshHomes /\ RequestHomes
  BY DEF HomeInv
<1>2. feeds' \in Tables
  BY DEF TypeOK, Tables
<1>3. req[h] \in RequestTypes /\ NoRequest \in RequestTypes
  BY Typed, RecordTypes
<1>4. ASSUME feeds' = feeds, nextId' = nextId PROVE KeepsHomes
  BY <1>2, <1>4, WritesKeepHomes
\* What is left to show of a step of a handler.
<1>5. ASSUME KeepsHomes, UNCHANGED refreshVars, NEW q \in RequestTypes, Goes(h, q),
             q.at \in Holding => q.id < nextId /\ SameHome(q.id, q.row),
             \A i \in IDs : stored'[i] = stored[i] \/ stored'[i] = Nothing
      PROVE  KeepsHomes /\ HomeInv'
  BY <1>1, <1>5, TableHomesKept, RefreshHomesKept, RequestHomesKept DEF HomeInv
<1>6. ASSUME KeepsHomes, UNCHANGED refreshVars, Ends(h),
             \A i \in IDs : stored'[i] = stored[i] \/ stored'[i] = Nothing
      PROVE  KeepsHomes /\ HomeInv'
  BY <1>3, <1>5, <1>6 DEF Ends, NoRequest, Holding
<1>7. ASSUME NEW i \in Live, NEW u \in URLs, NEW d \in Folders
      PROVE  /\ i \in IDs /\ i < nextId
             /\ [feeds[i] EXCEPT !.url = u, !.folder = d] \in Rows
             /\ [feeds[i] EXCEPT !.url = u, !.folder = d].url = u
             /\ [feeds[i] EXCEPT !.folder = d] \in Rows
             /\ [feeds[i] EXCEPT !.folder = d].url = feeds[i].url
  BY <1>1, Typed DEF Rows, TableHomes
<1>8. ASSUME NEW id \in IDs, NEW u \in URLs, NEW d \in Folders, EditLoad(h, id, u, d)
      PROVE  KeepsHomes /\ HomeInv'
  <2>1. id \in Live
    BY <1>8 DEF EditLoad
  <2>6. u = feeds[id].url
    BY <1>8 DEF EditLoad
  <2> DEFINE r == [feeds[id] EXCEPT !.url = u, !.folder = d]
             q == [at |-> "save", id |-> id, row |-> r, aim |-> NoFeed]
  <2>2. r \in Rows /\ r.url = u /\ id < nextId
    BY <1>1, <2>1, Typed DEF Rows, TableHomes
  <2>3. Goes(h, q)
    BY <1>8, <2>6 DEF EditLoad
  <2> HIDE DEF r
  <2>5. q \in RequestTypes /\ q.id < nextId /\ SameHome(q.id, q.row)
    BY <2>2, <2>6 DEF RequestTypes, Places, SameHome
  <2>4. UNCHANGED <<tableVars, refreshVars>>
    BY <1>8 DEF EditLoad
  <2> HIDE DEF q
  <2> QED BY <1>4, <1>5, <2>3, <2>4, <2>5
<1>9. CASE EditCheck(h)
  <2> DEFINE q == [req[h] EXCEPT !.at = "save"]
  <2>1. q \in RequestTypes /\ q.id = req[h].id /\ q.row = req[h].row
    BY <1>3 DEF RequestTypes, Places
  <2>2. q.id < nextId /\ SameHome(q.id, q.row)
    BY <1>1, <1>9, <2>1 DEF EditCheck, RequestHomes, Holding
  <2>3. Goes(h, q) \/ Ends(h)
    BY <1>9 DEF EditCheck
  <2>4. UNCHANGED <<tableVars, refreshVars>>
    BY <1>9 DEF EditCheck
  <2> HIDE DEF q
  <2> QED BY <1>4, <1>5, <1>6, <2>1, <2>2, <2>3, <2>4
<1>10. CASE EditSave(h) \/ ImportSave(h)
  <2>1. req[h].row \in Rows /\ SameHome(req[h].id, req[h].row)
    BY <1>1, <1>3, <1>10 DEF EditSave, ImportSave, RequestHomes, RequestTypes, Holding
  <2>2. \/ UNCHANGED feeds
        \/ req[h].id \in IDs /\ Update(req[h].id, req[h].row)
    BY <1>10 DEF EditSave, ImportSave, UpdateFails, Update, CanUpdate, Live
  <2>3. nextId' = nextId /\ stored' = stored /\ UNCHANGED refreshVars /\ Ends(h)
    BY <1>10 DEF EditSave, ImportSave
  <2>4. KeepsHomes
    BY <1>2, <2>1, <2>2, <2>3, WritesKeepHomes
  <2> QED BY <1>6, <2>3, <2>4
<1>11. ASSUME NEW u \in URLs, NEW d \in Folders, Subscribe(h, u, d) PROVE KeepsHomes /\ HomeInv'
  <2>1. UNCHANGED <<tableVars, refreshVars>>
    BY <1>11 DEF Subscribe
  <2> DEFINE new == [NoRequest EXCEPT !.at = "create", !.row = NewRow(u, d)]
             old(i) == [at |-> "importSave", id |-> i,
                        row |-> [feeds[i] EXCEPT !.folder = d], aim |-> NoFeed]
  <2>2. new \in RequestTypes /\ new.at = "create"
    BY RowTypes, RecordTypes DEF RequestTypes, Places, NoRequest
  <2>3. ASSUME NEW i \in Live
        PROVE  old(i) \in RequestTypes /\ old(i).id < nextId /\ SameHome(old(i).id, old(i).row)
    BY <1>7, <2>3, <1>11 DEF RequestTypes, Places, SameHome
  <2>4. Goes(h, new) \/ \E i \in Live : Goes(h, old(i))
    BY <1>11 DEF Subscribe
  <2> HIDE DEF new, old
  <2> QED BY <1>4, <1>5, <2>1, <2>2, <2>3, <2>4 DEF Holding
<1>12. CASE SubscribeCreate(h)
  <2>1. Ends(h) /\ UNCHANGED <<refreshVars, stored>>
    BY <1>12 DEF SubscribeCreate, Create
  <2>2. UNCHANGED <<feeds, nextId>> \/ Added
    BY <1>3, <1>12 DEF SubscribeCreate, Added, RequestTypes
  <2>3. KeepsHomes
    BY <1>2, <2>2, WritesKeepHomes
  <2> QED BY <1>6, <2>1, <2>3
<1>13. ASSUME NEW id \in IDs, MergeForm(h, id) \/ MergeSubmit(h, id) PROVE KeepsHomes /\ HomeInv'
  <2>1. UNCHANGED <<tableVars, refreshVars>> /\ KeepsHomes
    BY <1>4, <1>13 DEF MergeForm, MergeSubmit
  <2>2. RefreshHomes' /\ TableHomes'
    BY <1>1, <2>1, TableHomesKept, RefreshHomesKept
  \* The form and its answer hold no copy of a row.
  <2>3. \E q : Goes(h, q) /\ q.at \notin Holding
    <3> DEFINE form == [NoRequest EXCEPT !.at = "form", !.id = id, !.aim = feeds[id].cand]
               cand == feeds[req[h].id].cand
               merge == [req[h] EXCEPT !.at = "merge", !.id = id,
                                       !.aim = IF id = cand THEN req[h].id ELSE cand]
    <3>1. form.at = "form" /\ merge.at = "merge" /\ NoRequest.at = "idle"
      BY <1>3 DEF RequestTypes, NoRequest
    <3>2. Ends(h) \/ Goes(h, form) \/ Goes(h, merge)
      BY <1>13 DEF MergeForm, MergeSubmit
    <3> HIDE DEF form, merge
    <3> QED BY <3>1, <3>2 DEF Ends, Holding
  <2>4. \A g \in Handlers : req'[g].at \in Holding => req'[g] = req[g]
    BY <2>3, Typed DEF Goes
  <2>5. RequestHomes'
    BY <1>1, <2>1, <2>4 DEF RequestHomes, SameHome, Live
  <2> QED BY <2>1, <2>2, <2>5 DEF HomeInv
<1>14. CASE Merge(h)
  <2>1. Ends(h) /\ UNCHANGED <<refreshVars, nextId>>
    BY <1>14 DEF Merge
  <2>2. \A i \in IDs : stored'[i] = stored[i] \/ stored'[i] = Nothing
    BY <1>14, Typed DEF Merge
  <2>3. KeepsHomes
    BY <1>2, <1>14, <2>1, MergeRemoves, WritesKeepHomes
  <2> QED BY <1>6, <2>1, <2>2, <2>3
<1>15. CASE Edits(h)
  BY <1>8, <1>9, <1>10, <1>15 DEF Edits
<1>16. CASE Subscriptions(h)
  BY <1>10, <1>11, <1>12, <1>16 DEF Subscriptions
<1>17. CASE Merges(h)
  BY <1>13, <1>14, <1>17 DEF Merges
<1> QED
  BY <1>15, <1>16, <1>17

LEMMA HomesInductive ==
    ASSUME TypeOK, TypeOK', HomeInv, "edit" \notin Ops, [Next]_vars
    PROVE  KeepsHomes /\ HomeInv'
<1> USE DEF tableVars, refreshVars, handlerUnchanged
<1>1. TableHomes /\ RefreshHomes /\ RequestHomes
  BY DEF HomeInv
<1>2. feeds' \in Tables
  BY DEF TypeOK, Tables
<1>3. ASSUME feeds' = feeds, nextId' = nextId PROVE KeepsHomes
  BY <1>2, <1>3, WritesKeepHomes
<1>4. ASSUME NEW id \in IDs, Begin(id) PROVE KeepsHomes /\ HomeInv'
  <2>1. KeepsHomes /\ TableHomes' /\ RequestHomes'
    BY <1>1, <1>3, <1>4, TableHomesKept, RequestHomesKept DEF Begin
  <2>2. RefreshHomes'
    BY <1>1, <1>4 DEF Begin, RefreshHomes, TableHomes, SameHome, Live
  <2> QED BY <2>1, <2>2 DEF HomeInv
<1>5. ASSUME NEW id \in IDs, Delete(id) PROVE KeepsHomes /\ HomeInv'
  <2>1. Removed
    BY <1>5, RemovedBy, Typed DEF Delete
  <2>2. KeepsHomes
    BY <1>2, <1>5, <2>1, WritesKeepHomes DEF Delete
  <2>3. \A i \in IDs : stored'[i] = stored[i] \/ stored'[i] = Nothing
    BY <1>5, Typed DEF Delete
  <2> QED
    BY <1>1, <1>5, <2>2, <2>3, TableHomesKept, RefreshHomesKept, RequestHomesKept
    DEF Delete, HomeInv
<1>6. CASE Crash
  <2>1. KeepsHomes /\ TableHomes'
    BY <1>1, <1>3, <1>6, TableHomesKept DEF Crash
  <2>2. RefreshHomes' /\ RequestHomes'
    BY <1>6 DEF Crash, Return, RefreshHomes, RequestHomes, NoRequest, Holding
  <2> QED BY <2>1, <2>2 DEF HomeInv
<1>7. CASE (\E u \in URLs : Publish(u)) \/ UNCHANGED vars
  <2>1. UNCHANGED <<tableVars, refreshVars, req>>
    BY <1>7 DEF Publish, vars
  <2> QED
    BY <1>1, <1>3, <2>1, TableHomesKept, RefreshHomesKept, RequestHomesKept DEF HomeInv
<1> QED
  BY <1>4, <1>5, <1>6, <1>7, RefreshKeepsHomes, RequestsKeepHomes DEF Next

LEMMA HomesInitially == Init => HomeInv
<1> SUFFICES ASSUME Init PROVE HomeInv
  OBVIOUS
<1>1. Len(FirstURLs) \in Nat
  BY RefresherAssumption
<1>2. TableHomes
  BY <1>1 DEF Init, TableHomes, ArticlesFromOwnURL, Live, IDs
<1> QED BY <1>2 DEF Init, HomeInv, RefreshHomes, RequestHomes, NoRequest, Holding

\* Where no feed's URL is edited, a feed's articles come from where its URL
\* leads: a refresh writes nothing into a feed that was added after the one it
\* refreshed was deleted, and no stale row sends a feed back to another site,
\* through adoptions of permanent redirects, merges, crashes and failing
\* queries (refresh.go:83-93, sync.go:42-64).
THEOREM ArticlesAreOwn ==
    ASSUME "edit" \notin Ops
    PROVE  Spec => []ArticlesFromOwnURL
<1>1. Init => HomeInv
  BY HomesInitially
<1>2. TypeOK /\ TypeOK' /\ HomeInv /\ [Next]_vars => HomeInv'
  BY HomesInductive
<1>3. HomeInv => ArticlesFromOwnURL
  BY DEF HomeInv, TableHomes
<1>4. QED
  BY <1>1, <1>2, <1>3, TypeCorrect, PTL DEF Spec

--------------------------------------------------------------------------------
(* Refreshes alone: no handler runs and no query fails.                         *)

CandidatesLive == \A i \in Live : feeds[i].cand \in Live \cup {NoFeed}

\* Refresh's copies are the rows themselves, but for what it changed in them.
CopiesCurrent ==
    /\ step # "idle" => job \in Live
    /\ step \in {"fetch", "lookup", "syncMeta", "iconSave"} => row = feeds[job]
    /\ step = "flag" => /\ other.id \in Live \ {job}
                        /\ row = [feeds[job] EXCEPT !.cand = other.id]
                        /\ other.row = [feeds[other.id] EXCEPT !.cand = job]
    /\ step = "save" => CanUpdate(job, row)

AloneInv == /\ \A h \in Handlers : req[h].at = "idle"
            /\ CandidatesLive
            /\ CopiesCurrent

\* Without operations every step is one of Refresh, of a web site or a crash.
LEMMA OnlyRefreshes ==
    ASSUME TypeOK, Ops = {}, AloneInv, [Next]_vars
    PROVE  \/ Advance
           \/ \E id \in IDs : Begin(id)
           \/ Crash
           \/ UNCHANGED <<tableVars, refreshVars, req>>
<1>1. ASSUME NEW h \in Handlers, Edits(h) \/ Subscriptions(h) \/ Merges(h) PROVE FALSE
  <2>1. req[h].at = "idle"
    BY DEF AloneInv
  <2> QED
    BY <1>1, <2>1 DEF Edits, Subscriptions, Merges, EditLoad, EditCheck, EditSave, Subscribe,
                  ImportSave, SubscribeCreate, MergeForm, MergeSubmit, Merge
<1>2. ASSUME NEW id \in IDs, Delete(id) PROVE FALSE
  BY <1>2 DEF Delete
<1> QED BY <1>1, <1>2 DEF Next, Publish, vars, tableVars, refreshVars

\* The row itself, with any candidate there is, can be written.
LEMMA OwnRowFits ==
    ASSUME TypeOK, URLsUnique, NEW i \in Live, NEW r, r.url = feeds[i].url,
           r.cand \in Live \cup {NoFeed}
    PROVE  CanUpdate(i, r)
  BY DEF CanUpdate, URLsUnique

LEMMA AloneWrites ==
    ASSUME TypeOK, URLsUnique, AloneInv, Advance, "dbError" \notin Faults
    PROVE  /\ step = "flag" => feeds' = [feeds EXCEPT ![other.id] = other.row]
           /\ step = "save" => feeds' = [feeds EXCEPT ![job] = Outcome(row)]
           /\ step = "iconSave" => \/ feeds' = feeds
                                   \/ feeds' = [feeds EXCEPT ![job] = [row EXCEPT !.icon = TRUE]]
           /\ step \notin {"flag", "save", "iconSave"} => feeds' = feeds
<1> USE DEF tableVars, refreshVars
<1>1. CandidatesLive /\ CopiesCurrent
  BY DEF AloneInv
<1>2. CASE step = "flag"
  <2>1. other.row.url = feeds[other.id].url /\ other.row.cand = job
    BY <1>1, <1>2, Typed DEF CopiesCurrent, Rows
  <2>2. CanUpdate(other.id, other.row)
    BY <1>1, <1>2, <2>1, OwnRowFits DEF CopiesCurrent
  <2>3. Flag
    BY <1>2 DEF Advance, FetchAnswers, FetchFails, Collide, Adopt, Save, SyncLoad, SyncMeta,
                StoreArticles, SyncFails, IconLoad, IconSave, Load
  <2> QED BY <1>2, <2>2, <2>3 DEF Flag, Update, UpdateFails
<1>3. CASE step = "save"
  <2>1. Outcome(row).url = row.url /\ Outcome(row).cand = row.cand
    BY Typed, OutcomeTypes DEF Outcome, FetchTypes, Results, Rows
  <2>2. CanUpdate(job, Outcome(row))
    BY <1>1, <1>3, <2>1 DEF CopiesCurrent, CanUpdate
  <2>3. Save
    BY <1>3 DEF Advance, FetchAnswers, FetchFails, Collide, Adopt, Flag, SyncLoad, SyncMeta,
                StoreArticles, SyncFails, IconLoad, IconSave, Load
  <2> QED BY <1>3, <2>2, <2>3 DEF Save, Update, UpdateFails
<1>4. CASE step = "syncMeta"
  <2>1. SyncMeta
    BY <1>4 DEF Advance, FetchAnswers, FetchFails, Collide, Adopt, Flag, SyncLoad, Save,
                StoreArticles, SyncFails, IconLoad, IconSave, Load
  <2>2. feeds' = feeds
    BY <1>1, <1>4, <2>1, Typed DEF SyncMeta, Update, UpdateFails, CopiesCurrent, Tables
  <2> QED BY <1>4, <2>2
<1>5. CASE step = "iconSave"
  <2>1. IconSave
    BY <1>5 DEF Advance, FetchAnswers, FetchFails, Collide, Adopt, Flag, SyncLoad, Save,
                StoreArticles, SyncFails, IconLoad, SyncMeta, Load
  <2> QED BY <1>5, <2>1 DEF IconSave, Update
<1>6. CASE step \notin {"flag", "save", "syncMeta", "iconSave"}
  BY <1>6 DEF Advance, FetchAnswers, FetchFails, Collide, Adopt, Flag, SyncLoad, Save,
              StoreArticles, SyncFails, IconLoad, IconSave, SyncMeta, Load
<1> QED BY <1>2, <1>3, <1>4, <1>5, <1>6

LEMMA AloneInductive ==
    ASSUME TypeOK, TypeOK', URLsUnique, AloneInv, Ops = {}, "dbError" \notin Faults, [Next]_vars
    PROVE  AloneInv'
<1> USE DEF tableVars, refreshVars
<1>1. CandidatesLive /\ CopiesCurrent /\ \A h \in Handlers : req[h].at = "idle"
  BY DEF AloneInv
<1>2. ASSUME UNCHANGED <<feeds, req>>, CopiesCurrent' PROVE AloneInv'
  BY <1>1, <1>2 DEF AloneInv, CandidatesLive, Live
<1>3. ASSUME step' = "idle" PROVE CopiesCurrent'
  BY <1>3 DEF CopiesCurrent
<1>4. ASSUME NEW id \in IDs, Begin(id) PROVE AloneInv'
  BY <1>2, <1>4 DEF Begin, CopiesCurrent, Live
<1>5. CASE Crash
  BY <1>1, <1>3, <1>5 DEF Crash, Return, AloneInv, CandidatesLive, Live, NoRequest
<1>6. CASE UNCHANGED <<tableVars, refreshVars, req>>
  BY <1>1, <1>2, <1>6 DEF CopiesCurrent, CanUpdate, Live
<1>7. CASE Advance
  <2>1. /\ step = "flag" => feeds' = [feeds EXCEPT ![other.id] = other.row]
        /\ step = "save" => feeds' = [feeds EXCEPT ![job] = Outcome(row)]
        /\ step = "iconSave" => \/ feeds' = feeds
                                \/ feeds' = [feeds EXCEPT ![job] = [row EXCEPT !.icon = TRUE]]
        /\ step \notin {"flag", "save", "iconSave"} => feeds' = feeds
    BY <1>7, AloneWrites
  \* A row of its own feed's URL and with its candidate can be written.
  <2>2. ASSUME NEW r, r.url = feeds[job].url, r.cand = feeds[job].cand, step # "idle"
        PROVE  CanUpdate(job, r)
    BY <1>1, <2>2, OwnRowFits DEF CopiesCurrent, CandidatesLive
  <2>3. CASE FetchFails \/ FetchAnswers
    <3>1. feeds' = feeds /\ row' = row /\ job' = job /\ row = feeds[job] /\ job \in Live
      BY <1>1, <2>3 DEF FetchFails, FetchAnswers, CopiesCurrent
    <3>2. CanUpdate(job, row)
      BY <2>2, <2>3, <3>1 DEF FetchFails, FetchAnswers
    <3>3. CopiesCurrent'
      BY <2>3, <3>1, <3>2 DEF FetchFails, FetchAnswers, CopiesCurrent, CanUpdate, Live
    <3> QED BY <1>2, <2>3, <3>3 DEF FetchFails, FetchAnswers
  <2>4. CASE Collide
    <3>1. CopiesCurrent'
      BY <1>1, <2>4 DEF Collide, CopiesCurrent, Live
    <3> QED BY <1>2, <2>4, <3>1 DEF Collide
  <2>5. CASE Adopt
    <3>1. row = feeds[job] /\ job \in Live
      BY <1>1, <2>5 DEF Adopt, CopiesCurrent
    <3>2. row'.url = fetched.final /\ row'.cand = feeds[job].cand
      BY <2>5, <3>1, Typed DEF Adopt, Rows
    <3>3. \A o \in Live \ {job} : feeds[o].url # fetched.final
      BY <2>5 DEF Adopt
    <3>4. CopiesCurrent'
      BY <1>1, <2>5, <3>1, <3>2, <3>3
      DEF Adopt, CopiesCurrent, CanUpdate, CandidatesLive, Live
    <3> QED BY <1>2, <2>5, <3>4 DEF Adopt
  <2>6. CASE Flag
    <3>1. /\ other.id \in Live \ {job} /\ job \in Live
          /\ row.url = feeds[job].url /\ row.cand = other.id
          /\ other.row.url = feeds[other.id].url /\ other.row.cand = job
          /\ other.row \in Rows
      BY <1>1, <2>6, Typed DEF Flag, CopiesCurrent, Rows
    <3>2. feeds' = [feeds EXCEPT ![other.id] = other.row]
      BY <2>1, <2>6 DEF Flag
    <3>3. \A i \in Live' : i \in Live /\ feeds'[i].url = feeds[i].url
      BY <3>1, <3>2, Typed DEF Live, Tables
    <3>4. Live' = Live
      BY <3>1, <3>2, Typed, RowTypes DEF Live, Tables
    <3>5. CopiesCurrent'
      BY <2>6, <3>1, <3>3, <3>4, Typed DEF Flag, GoOn, CopiesCurrent, CanUpdate, URLsUnique
    <3>6. CandidatesLive'
      BY <1>1, <3>1, <3>2, <3>4, Typed DEF CandidatesLive, Tables
    <3> QED BY <1>1, <2>6, <3>5, <3>6 DEF Flag, AloneInv
  <2>7. CASE Save
    <3>1. /\ Outcome(row) \in Rows /\ Outcome(row).cand = row.cand
          /\ CanUpdate(job, row)
          /\ feeds' = [feeds EXCEPT ![job] = Outcome(row)]
      BY <1>1, <2>1, <2>7, Typed, OutcomeTypes DEF Save, CopiesCurrent
    <3>2. Live' = Live
      BY <3>1, Typed, RowTypes DEF Live, Tables, CanUpdate
    <3>3. CandidatesLive'
      BY <1>1, <3>1, <3>2, Typed DEF CandidatesLive, CanUpdate, Tables
    <3>4. CopiesCurrent'
      BY <2>7, <3>1, <3>2, Typed DEF Save, GoOn, Return, CopiesCurrent, CanUpdate
    <3> QED BY <1>1, <2>7, <3>3, <3>4 DEF Save, AloneInv
  <2>8. ASSUME NEW needed,
               Load("syncLoad", "syncMeta", needed) \/ Load("iconLoad", "iconSave", needed)
        PROVE  AloneInv'
    <3>1. CopiesCurrent'
      BY <1>3, <2>8 DEF Load, Return, CopiesCurrent, Live
    <3> QED BY <1>2, <2>8, <3>1 DEF Load
  <2>9. CASE SyncMeta \/ StoreArticles \/ SyncFails
    <3>1. feeds' = feeds
      BY <2>1, <2>9 DEF SyncMeta, StoreArticles, SyncFails
    <3>2. CopiesCurrent'
      BY <1>1, <2>9, <3>1
      DEF SyncMeta, StoreArticles, SyncFails, GoOn, Return, CopiesCurrent, Live
    <3> QED BY <1>2, <2>9, <3>1, <3>2 DEF SyncMeta, StoreArticles, SyncFails
  <2>10. CASE IconSave
    <3>1. [row EXCEPT !.icon = TRUE] \in Rows /\ [row EXCEPT !.icon = TRUE].cand = row.cand
      BY Typed DEF Rows
    <3>2. row = feeds[job] /\ job \in Live
      BY <1>1, <2>10 DEF IconSave, CopiesCurrent
    <3>3. feeds' = feeds \/ feeds' = [feeds EXCEPT ![job] = [row EXCEPT !.icon = TRUE]]
      BY <2>1, <2>10 DEF IconSave
    <3>4. Live' = Live
      BY <3>1, <3>2, <3>3, Typed, RowTypes DEF Live, Tables
    <3>5. CandidatesLive'
      BY <1>1, <3>1, <3>2, <3>3, <3>4, Typed DEF CandidatesLive, Tables
    <3> QED BY <1>1, <1>3, <2>10, <3>5 DEF IconSave, Return, AloneInv
  <2> QED
    BY <1>7, <2>3, <2>4, <2>5, <2>6, <2>7, <2>8, <2>9, <2>10 DEF Advance, SyncLoad, IconLoad
<1> QED BY <1>4, <1>5, <1>6, <1>7, OnlyRefreshes

LEMMA AloneInitially == Init => AloneInv
<1> SUFFICES ASSUME Init PROVE AloneInv
  OBVIOUS
<1>1. CandidatesLive
  BY DEF Init, CandidatesLive, Live, NewRow
<1> QED BY <1>1 DEF Init, AloneInv, CopiesCurrent, NoRequest

LEMMA SaveFits ==
    ASSUME TypeOK, AloneInv
    PROVE  RefreshNeverConflicts
<1>1. Outcome(row).url = row.url /\ Outcome(row).cand = row.cand
  BY Typed, OutcomeTypes DEF Outcome, FetchTypes, Results, Rows
<1> QED BY <1>1 DEF AloneInv, CopiesCurrent, RefreshNeverConflicts, CanUpdate

\* While no handler interferes and no query fails, the row that a refresh saves
\* meets no constraint, however many feeds there are, however their redirects
\* converge and wherever the process is stopped: "keeps this feed's original URL
\* rather than failing every future refresh" (refresh.go:86).
THEOREM RefreshesAloneFit ==
    ASSUME Ops = {}, "dbError" \notin Faults
    PROVE  Spec => []RefreshNeverConflicts
<1>1. Init => AloneInv
  BY AloneInitially
<1>2. TypeOK /\ TypeOK' /\ URLsUnique /\ AloneInv /\ [Next]_vars => AloneInv'
  BY AloneInductive
<1>3. TypeOK /\ AloneInv => RefreshNeverConflicts
  BY SaveFits
<1>4. QED
  BY <1>1, <1>2, <1>3, TypeCorrect, NoTwoShareURL, PTL DEF Spec

\* The candidates as the refresh under way is about to leave them.
Cand(i) == IF step = "save" /\ i = job THEN row.cand ELSE feeds[i].cand

CandidatesMutual == \A i \in Live : Cand(i) # NoFeed => Cand(Cand(i)) # NoFeed

LEMMA MutualInductive ==
    ASSUME TypeOK, TypeOK', URLsUnique, AloneInv, AloneInv', CandidatesMutual,
           Ops = {}, Faults = {}, [Next]_vars
    PROVE  CandidatesMutual'
<1> USE DEF tableVars, refreshVars
<1>1. CandidatesLive /\ CopiesCurrent
  BY DEF AloneInv
<1>2. ASSUME Live' = Live, \A i \in Live : Cand(i)' = Cand(i) PROVE CandidatesMutual'
  <2>1. \A i \in Live : Cand(i) \in Live \cup {NoFeed}
    BY <1>1 DEF Cand, CandidatesLive, CopiesCurrent, CanUpdate
  <2>2. ASSUME NEW i \in Live, NEW c, c = Cand(i)', c # NoFeed PROVE Cand(c)' # NoFeed
    BY <1>2, <2>1, <2>2 DEF CandidatesMutual
  <2> QED BY <1>2, <2>2 DEF CandidatesMutual
<1>3. ~ Crash
  BY DEF Crash
<1>4. ASSUME NEW id \in IDs, Begin(id) PROVE CandidatesMutual'
  BY <1>2, <1>4 DEF Begin, Cand, Live
<1>5. CASE UNCHANGED <<tableVars, refreshVars, req>>
  BY <1>2, <1>5 DEF Cand, Live
<1>6. CASE Advance
  <2>1. /\ step = "flag" => feeds' = [feeds EXCEPT ![other.id] = other.row]
        /\ step = "save" => feeds' = [feeds EXCEPT ![job] = Outcome(row)]
        /\ step = "iconSave" => \/ feeds' = feeds
                                \/ feeds' = [feeds EXCEPT ![job] = [row EXCEPT !.icon = TRUE]]
        /\ step \notin {"flag", "save", "iconSave"} => feeds' = feeds
    BY <1>6, AloneWrites
  <2>2. CASE FetchFails \/ FetchAnswers \/ Collide
    <3>1. feeds' = feeds /\ job' = job /\ step # "save"
          /\ (step' = "save" => row'.cand = feeds[job].cand)
      BY <1>1, <2>2 DEF FetchFails, FetchAnswers, Collide, CopiesCurrent
    <3> QED BY <1>2, <3>1 DEF Cand, Live
  <2>3. CASE Adopt
    <3>1. feeds' = feeds /\ job' = job /\ step # "save" /\ row'.cand = feeds[job].cand
      BY <1>1, <2>3, Typed DEF Adopt, CopiesCurrent, Rows
    <3> QED BY <1>2, <3>1 DEF Cand, Live
  \* Both feeds of a collision have a candidate: the other in the table, the
  \* refreshed one in the row that is saved next.
  <2>4. CASE Flag
    <3>1. /\ other.id \in Live \ {job} /\ job \in Live
          /\ row.cand = other.id
          /\ other.row.cand = job /\ other.row \in Rows
      BY <1>1, <2>4, Typed DEF Flag, CopiesCurrent, Rows
    <3>2. feeds' = [feeds EXCEPT ![other.id] = other.row]
      BY <2>1, <2>4 DEF Flag
    <3>3. Live' = Live
      BY <3>1, <3>2, Typed, RowTypes DEF Live, Tables
    <3>4. PICK o, j : o = other.id /\ j = job
      OBVIOUS
    <3>8. /\ Cand(j)' = o /\ Cand(o)' = j
          /\ \A i \in Live \ {j, o} : Cand(i)' = feeds[i].cand
      <4>1. step = "flag" /\ step' = "save" /\ job' = job /\ row' = row
        BY <2>4 DEF Flag, GoOn
      <4>2. feeds'[o] = other.row /\ \A i \in IDs \ {o} : feeds'[i] = feeds[i]
        BY <3>1, <3>2, <3>4, Typed DEF Tables
      <4> QED BY <3>1, <3>4, <4>1, <4>2, Typed DEF Cand, Live
    <3>5. \A i \in Live : feeds[i].cand # NoFeed =>
              feeds[i].cand \in Live /\ feeds[feeds[i].cand].cand # NoFeed
      BY <1>1, <2>4 DEF Flag, CandidatesMutual, Cand, CandidatesLive
    <3>6. job # NoFeed /\ other.id # NoFeed
      BY Typed DEF IDs, NoFeed
    <3>7. ASSUME NEW i \in Live, NEW c, c = Cand(i)', c # NoFeed PROVE Cand(c)' # NoFeed
      <4>1. CASE i \in {j, o}
        BY <3>4, <3>6, <3>7, <3>8, <4>1
      <4>2. CASE i \notin {j, o}
        <5>1. c = feeds[i].cand /\ c \in Live /\ feeds[c].cand # NoFeed
          BY <3>5, <3>7, <3>8, <4>2
        <5> QED BY <3>4, <3>6, <3>8, <5>1
      <4> QED BY <4>1, <4>2
    <3> QED BY <3>3, <3>7 DEF CandidatesMutual
  <2>5. CASE Save
    <3>1. /\ Outcome(row) \in Rows /\ Outcome(row).cand = row.cand
          /\ job \in Live
          /\ feeds' = [feeds EXCEPT ![job] = Outcome(row)]
      BY <1>1, <2>1, <2>5, Typed, OutcomeTypes DEF Save, CopiesCurrent
    <3>2. Live' = Live
      BY <3>1, Typed, RowTypes DEF Live, Tables
    <3>3. \A i \in Live : Cand(i)' = Cand(i)
      BY <2>5, <3>1, Typed DEF Save, Return, GoOn, Cand, Live, Tables
    <3> QED BY <1>2, <3>2, <3>3
  <2>6. CASE \/ SyncLoad \/ SyncMeta \/ StoreArticles \/ SyncFails \/ IconLoad
    <3>1. feeds' = feeds /\ step # "save" /\ step' # "save"
      BY <2>1, <2>6
      DEF SyncLoad, SyncMeta, StoreArticles, SyncFails, IconLoad, Load, GoOn, Return
    <3> QED BY <1>2, <3>1 DEF Cand, Live
  <2>7. CASE IconSave
    <3>1. [row EXCEPT !.icon = TRUE] \in Rows /\ [row EXCEPT !.icon = TRUE].cand = row.cand
      BY Typed DEF Rows
    <3>2. row = feeds[job] /\ job \in Live /\ step = "iconSave" /\ step' = "idle"
      BY <1>1, <2>7 DEF IconSave, CopiesCurrent, Return
    <3>3. feeds' = feeds \/ feeds' = [feeds EXCEPT ![job] = [row EXCEPT !.icon = TRUE]]
      BY <2>1, <3>2
    <3>4. Live' = Live
      BY <3>1, <3>2, <3>3, Typed, RowTypes DEF Live, Tables
    <3>5. \A i \in Live : Cand(i)' = Cand(i)
      BY <3>1, <3>2, <3>3, Typed DEF Cand, Live, Tables
    <3> QED BY <1>2, <3>4, <3>5
  <2> QED BY <1>6, <2>2, <2>3, <2>4, <2>5, <2>6, <2>7 DEF Advance
<1> QED BY <1>3, <1>4, <1>5, <1>6, OnlyRefreshes

\* "Set on both feeds involved so the action is visible from either one"
\* (0003_feed_merge.sql:4): between two refreshes a feed that another proposes
\* for a merge proposes one itself, for any number of feeds that converge.
THEOREM CandidatesOnBoth ==
    ASSUME Ops = {}, Faults = {}
    PROVE  Spec => []CandidatesVisible
<1>1. Init => AloneInv /\ CandidatesMutual
  <2> SUFFICES ASSUME Init PROVE CandidatesMutual
    BY AloneInitially
  <2> QED BY DEF Init, CandidatesMutual, Cand, Live, NewRow
<1>2. TypeOK /\ TypeOK' /\ URLsUnique /\ AloneInv /\ [Next]_vars => AloneInv'
  BY AloneInductive
<1>3. /\ TypeOK /\ TypeOK' /\ URLsUnique /\ AloneInv /\ AloneInv' /\ CandidatesMutual
      /\ [Next]_vars
      => CandidatesMutual'
  BY MutualInductive
<1>4. CandidatesMutual => CandidatesVisible
  BY DEF CandidatesMutual, Cand, CandidatesVisible
<1>5. QED
  BY <1>1, <1>2, <1>3, <1>4, TypeCorrect, NoTwoShareURL, PTL DEF Spec

--------------------------------------------------------------------------------
(* Validators and articles.                                                     *)

\* The articles of a feed are those that the validator val came with, or newer.
Backed(id, val) ==
    \/ val = Nothing
    \/ stored[id] # Nothing /\ stored[id].src = val.src /\ stored[id].ver >= val.ver

\* Or they will be, or would have been had their refresh not been cut off.
BackedSoon(id, val) ==
    id \in Live =>
        \/ Backed(id, val)
        \/ Storing /\ id = job /\ val = New
        \/ val \in lost[id]

TableBacked == \A i \in Live : BackedSoon(i, feeds[i].val)

RefreshBacked ==
    /\ step # "idle" => BackedSoon(job, row.val)
    /\ step = "flag" => BackedSoon(other.id, other.row.val)

RequestsBacked ==
    \A h \in Handlers :
        /\ req[h].at \in Holding => BackedSoon(req[h].id, req[h].row.val)
        /\ req[h].at = "create" => req[h].row.val = Nothing

\* Versions only grow, so what is fetched is as new as what is stored.
VersionsGrow ==
    /\ \A i \in Live : stored[i] # Nothing => stored[i].ver <= published[stored[i].src]
    /\ Storing \/ (step \in {"lookup", "flag", "save"} /\ fetched.result = "ok") =>
           /\ fetched.ver <= published[fetched.final]
           /\ job \in Live /\ stored[job] # Nothing => stored[job].ver <= fetched.ver

BackedInv == TableBacked /\ RefreshBacked /\ RequestsBacked /\ VersionsGrow

\* A version that was lost came from where the feed's URL leads, and before
\* what is fetched now.
LostInv ==
    /\ lost \in [IDs -> SUBSET Content]
    /\ \A i \in IDs : i >= nextId => lost[i] = {}
    /\ \A i \in Live : \A v \in lost[i] :
           v.src = Target[feeds[i].url] /\ v.ver <= published[v.src]
    /\ Storing \/ (step \in {"lookup", "flag", "save"} /\ fetched.result = "ok") =>
           (job \in Live => \A v \in lost[job] : v.ver <= fetched.ver)

LEMMA RowsStayOrCome ==
    ASSUME TypeOK, [Next]_vars
    PROVE  /\ \A i \in Live' : i \in Live \/ (i = nextId /\ nextId' = nextId + 1)
           /\ nextId' \in {nextId, nextId + 1}
<1>1. CASE feeds' = feeds /\ nextId' = nextId
  BY <1>1 DEF Live
<1>2. CASE Replaced /\ nextId' = nextId
  <2>1. PICK id \in IDs, r \in Rows : Update(id, r)
    BY <1>2 DEF Replaced
  <2> QED BY <1>2, <2>1, Typed DEF Update, CanUpdate, Live, Tables
<1>3. CASE Added
  <2>1. PICK r \in Rows : Create(r)
    BY <1>3 DEF Added
  <2> QED BY <2>1, Typed DEF Create, Live, Tables
<1>4. CASE Removed /\ nextId' = nextId
  BY <1>4 DEF Removed, Live
<1> QED BY <1>1, <1>2, <1>3, <1>4, TableWrites

\* What is fetched is kept until it is stored or the refresh ends.
LEMMA CarriesOn ==
    ASSUME TypeOK, [Next]_vars,
           Storing' \/ (step' \in {"lookup", "flag", "save"} /\ fetched'.result = "ok")
    PROVE  /\ ~Storing \/ Storing'
           /\ \/ FetchAnswers
              \/ /\ Storing \/ (step \in {"lookup", "flag", "save"} /\ fetched.result = "ok")
                 /\ fetched' = fetched /\ job' = job
<1> USE DEF refreshVars, handlerUnchanged, Storing
<1>1. CASE Advance
  <2>1. CASE FetchFails \/ FetchAnswers
    BY <2>1 DEF FetchFails, FetchAnswers
  <2>2. CASE Collide \/ Adopt \/ Flag \/ Save
    BY <2>2 DEF Collide, Adopt, Flag, Save, GoOn, Return
  <2>3. CASE SyncLoad \/ SyncMeta \/ StoreArticles \/ SyncFails \/ IconLoad \/ IconSave
    BY <2>3 DEF SyncLoad, SyncMeta, StoreArticles, SyncFails, IconLoad, IconSave, Load,
                GoOn, Return
  <2> QED BY <1>1, <2>1, <2>2, <2>3 DEF Advance
<1>2. CASE Crash \/ \E id \in IDs : Begin(id)
  BY <1>2 DEF Crash, Return, Begin
<1>3. ASSUME UNCHANGED refreshVars
      PROVE  /\ Storing \/ (step \in {"lookup", "flag", "save"} /\ fetched.result = "ok")
             /\ fetched' = fetched /\ job' = job /\ (~Storing \/ Storing')
  BY <1>3
<1>4. CASE \/ \E h \in Handlers : Edits(h) \/ Subscriptions(h) \/ Merges(h)
           \/ \E id \in IDs : Delete(id)
           \/ \E u \in URLs : Publish(u)
           \/ UNCHANGED vars
  <2>1. UNCHANGED refreshVars
    BY <1>4 DEF Edits, EditLoad, EditCheck, EditSave, Subscriptions, Subscribe, ImportSave,
                SubscribeCreate, Merges, MergeForm, MergeSubmit, Merge, Delete, Publish, vars
  <2> QED BY <1>3, <2>1
<1> QED BY <1>1, <1>2, <1>4 DEF Next

LEMMA PublishedGrows ==
    ASSUME TypeOK, [Next]_vars
    PROVE  \A u \in URLs : published[u] \in Nat /\ published[u] <= published'[u]
<1>1. CASE \E u \in URLs : Publish(u)
  BY <1>1 DEF Publish, TypeOK
<1>2. CASE UNCHANGED published
  BY <1>2 DEF TypeOK
<1>3. CASE Advance
  BY <1>2, <1>3 DEF Advance, FetchFails, FetchAnswers, Collide, Adopt, Flag, Save, SyncLoad,
     SyncMeta, StoreArticles, SyncFails, IconLoad, IconSave, Load
<1>4. CASE \E h \in Handlers : Edits(h) \/ Subscriptions(h) \/ Merges(h)
  BY <1>2, <1>4
  DEF Edits, EditLoad, EditCheck, EditSave, Subscriptions, Subscribe, ImportSave,
      SubscribeCreate, Merges, MergeForm, MergeSubmit, Merge, handlerUnchanged
<1>5. CASE Crash \/ UNCHANGED vars \/ \E id \in IDs : Begin(id) \/ Delete(id)
  BY <1>2, <1>5 DEF Crash, vars, Begin, Delete, handlerUnchanged
<1> QED BY <1>1, <1>3, <1>4, <1>5 DEF Next

LEMMA LostInductive ==
    ASSUME TypeOK, TypeOK', HomeInv, KeepsHomes, VersionsGrow, LostInv, [Next]_vars, Remember
    PROVE  LostInv'
<1>1. /\ TableHomes /\ RefreshHomes /\ job \in IDs /\ New \in Content
      /\ New.src = fetched.final /\ New.ver = fetched.ver /\ New.ver \in Nat
  BY Typed DEF HomeInv, New, FetchTypes, Content
<1>2. \A c \in Content : c.src \in URLs /\ c.ver \in Nat
  BY DEF Content
<1>3. \A u \in URLs : published[u] \in Nat /\ published'[u] \in Nat
                      /\ published[u] <= published'[u]
  BY PublishedGrows DEF TypeOK
\* Only the feed that is being refreshed gets one more, and what is lost of it
\* is what was fetched.
<1>4. ASSUME NEW i \in IDs, NEW v \in lost'[i]
      PROVE  v \in lost[i] \/ (i = job /\ Storing /\ v = New)
  BY <1>1, <1>4 DEF Remember, LostInv
<1>5. lost' \in [IDs -> SUBSET Content]
  BY <1>1 DEF Remember, LostInv
<1>6. Storing => /\ job < nextId
                 /\ job \in Live => New.src = Target[feeds[job].url]
                 /\ New.ver <= published[New.src]
  BY <1>1 DEF RefreshHomes, SameHome, VersionsGrow, Storing
<1>7. ASSUME NEW i \in IDs, i >= nextId PROVE lost'[i] = {}
  <2>1. lost[i] = {} /\ ~(i = job /\ Storing)
    BY <1>6, <1>7, Typed DEF LostInv
  <2> QED BY <1>4, <2>1
<1>8. ASSUME NEW i \in Live', NEW v \in lost'[i]
      PROVE  v.src = Target[feeds'[i].url] /\ v.ver <= published'[v.src]
  <2>1. i \in IDs /\ i # nextId
    BY <1>7, <1>8, Typed DEF Live
  <2>2. i \in Live /\ Target[feeds'[i].url] = Target[feeds[i].url]
    BY <1>8, <2>1 DEF KeepsHomes, Live
  <2>3. v \in Content /\ v.src = Target[feeds[i].url] /\ v.ver <= published[v.src]
    BY <1>1, <1>4, <1>6, <1>8, <2>1, <2>2 DEF LostInv
  <2> QED BY <1>2, <1>3, <2>2, <2>3
<1>9. ASSUME Storing' \/ (step' \in {"lookup", "flag", "save"} /\ fetched'.result = "ok"),
             job' \in Live', NEW v \in lost'[job']
      PROVE  v.ver <= fetched'.ver
  <2>1. lost' = lost
    BY <1>9, CarriesOn DEF Remember
  <2>2. CASE FetchAnswers
    <3>1. job' = job /\ job \in Live /\ Target[row.url] = Target[feeds[job].url]
      BY <1>1, <1>9, <2>2 DEF FetchAnswers, tableVars, RefreshHomes, SameHome, Live
    <3>2. fetched'.ver = published[Target[row.url]]
      BY <2>2 DEF FetchAnswers
    <3> QED BY <1>9, <2>1, <3>1, <3>2 DEF LostInv
  <2>3. CASE /\ Storing \/ (step \in {"lookup", "flag", "save"} /\ fetched.result = "ok")
             /\ fetched' = fetched /\ job' = job
    <3>1. job < nextId
      BY <1>1, <2>3 DEF RefreshHomes, Storing
    <3>2. job \in Live
      BY <1>1, <1>9, <2>3, <3>1, Typed DEF KeepsHomes, Live
    <3> QED BY <1>9, <2>1, <2>3, <3>2 DEF LostInv
  <2> QED BY <1>9, <2>2, <2>3, CarriesOn
<1>10. \A i \in IDs : i >= nextId' => i >= nextId
  BY Typed DEF KeepsHomes
<1> QED BY <1>5, <1>7, <1>8, <1>9, <1>10 DEF LostInv

\* A step that stores no articles, and that drops nothing else for them.
Quiet ==
    /\ \A i \in Live' : stored'[i] = stored[i]
    /\ Storing /\ Storing' => job' = job /\ fetched' = fetched
    /\ Storing /\ ~Storing' => step' # "iconLoad"

LEMMA BackedStays ==
    ASSUME TypeOK, [Next]_vars, Remember, LostInv, Quiet,
           NEW id \in IDs \cup {NoFeed}, id < nextId, NEW val, BackedSoon(id, val)
    PROVE  BackedSoon(id, val)'
<1> SUFFICES ASSUME id \in Live' PROVE BackedSoon(id, val)'
  BY DEF BackedSoon
<1>1. id \in Live /\ id \in IDs
  BY RowsStayOrCome, Typed DEF NoFeed, Live
<1>2. CASE Backed(id, val)
  <2>1. Backed(id, val)'
    BY <1>2 DEF Backed, Quiet
  <2> QED BY <2>1 DEF BackedSoon
<1>3. CASE Storing /\ id = job /\ val = New
  <2>1. CASE Storing'
    BY <1>3, <2>1 DEF BackedSoon, Quiet, New
  <2>2. CASE ~Storing'
    <3>1. lost' = [lost EXCEPT ![job] = @ \cup {New}]
      BY <1>3, <2>2 DEF Remember, Quiet
    <3>2. New \in lost'[job]
      BY <1>1, <1>3, <3>1 DEF LostInv
    <3> QED BY <1>3, <3>2 DEF BackedSoon
  <2> QED BY <2>1, <2>2
<1>4. CASE val \in lost[id]
  <2>1. lost[id] \subseteq lost'[id]
    BY <1>1 DEF Remember, Quiet, LostInv
  <2> QED BY <1>4, <2>1 DEF BackedSoon
<1> QED BY <1>1, <1>2, <1>3, <1>4 DEF BackedSoon

\* The parts of BackedInv after a quiet step.
LEMMA TableStaysBacked ==
    ASSUME TypeOK, [Next]_vars, Remember, LostInv, Quiet, TableHomes, TableBacked,
           \A i \in Live' :
               \/ feeds'[i].val = Nothing
               \/ /\ i \in Live
                  /\ feeds'[i].val = feeds[i].val \/ BackedSoon(i, feeds'[i].val)
    PROVE  TableBacked'
<1>1. ASSUME NEW i \in Live', NEW v, v = feeds'[i].val PROVE BackedSoon(i, v)'
  <2>1. CASE v = Nothing
    <3>1. Backed(i, v)'
      BY <2>1 DEF Backed
    <3> QED BY <3>1 DEF BackedSoon
  <2>2. CASE i \in Live /\ BackedSoon(i, v)
    <3>1. i \in IDs /\ i < nextId
      BY <2>2, Typed DEF TableHomes
    <3> QED BY <2>2, <3>1, BackedStays
  <2>3. CASE i \in Live /\ v = feeds[i].val
    <3>1. i \in IDs /\ i < nextId /\ BackedSoon(i, v)
      BY <2>3, Typed DEF TableHomes, TableBacked
    <3> QED BY <3>1, BackedStays
  <2> QED BY <1>1, <2>1, <2>2, <2>3
<1> QED BY <1>1 DEF TableBacked

LEMMA RefreshStaysBacked ==
    ASSUME TypeOK, [Next]_vars, Remember, LostInv, Quiet, RefreshHomes, RefreshBacked, UNCHANGED refreshVars
    PROVE  RefreshBacked'
<1>1. job \in IDs /\ other.id \in IDs
  BY Typed
<1>2. ASSUME step # "idle", NEW j, NEW v, j = job, v = row.val PROVE BackedSoon(j, v)'
  BY <1>1, <1>2, BackedStays DEF RefreshHomes, RefreshBacked
<1>3. ASSUME step = "flag", NEW j, NEW v, j = other.id, v = other.row.val PROVE BackedSoon(j, v)'
  BY <1>1, <1>3, BackedStays DEF RefreshHomes, RefreshBacked
<1>4. job' = job /\ row' = row /\ other' = other /\ step' = step
  BY DEF refreshVars
<1> QED BY <1>2, <1>3, <1>4 DEF RefreshBacked

LEMMA RequestsStayBacked ==
    ASSUME TypeOK, [Next]_vars, Remember, LostInv, Quiet, RequestHomes, RequestsBacked,
           \/ UNCHANGED req
           \/ \E h \in Handlers, q \in RequestTypes :
                  /\ Goes(h, q)
                  /\ q.at \in Holding => q.id < nextId /\ BackedSoon(q.id, q.row.val)
                  /\ q.at = "create" => q.row.val = Nothing
    PROVE  RequestsBacked'
<1>1. ASSUME NEW h \in Handlers, req'[h].at \in Holding
      PROVE  /\ req'[h].id \in IDs \cup {NoFeed}
             /\ req'[h].id < nextId /\ BackedSoon(req'[h].id, req'[h].row.val)
  BY <1>1, Typed DEF RequestHomes, RequestsBacked, Goes, RequestTypes
<1>2. ASSUME NEW h \in Handlers, req'[h].at = "create" PROVE req'[h].row.val = Nothing
  BY <1>2, Typed DEF RequestsBacked, Goes
<1>3. ASSUME NEW h \in Handlers, req'[h].at \in Holding,
             NEW i, NEW v, i = req'[h].id, v = req'[h].row.val
      PROVE  BackedSoon(i, v)'
  BY <1>1, <1>3, BackedStays
<1> QED BY <1>2, <1>3 DEF RequestsBacked

LEMMA VersionsStay ==
    ASSUME TypeOK, TypeOK', [Next]_vars, Quiet, TableHomes, VersionsGrow,
           \A u \in URLs : published[u] <= published'[u],
           Storing' \/ (step' \in {"lookup", "flag", "save"} /\ fetched'.result = "ok") =>
               /\ Storing \/ (step \in {"lookup", "flag", "save"} /\ fetched.result = "ok")
               /\ fetched' = fetched /\ job' = job
    PROVE  VersionsGrow'
<1>1. /\ published \in [URLs -> Nat] /\ published' \in [URLs -> Nat]
      /\ fetched.ver \in Nat /\ fetched.final \in URLs
      /\ \A i \in IDs : stored[i] # Nothing => stored[i].ver \in Nat /\ stored[i].src \in URLs
  <2>1. \A c \in Content : c.ver \in Nat /\ c.src \in URLs
    BY DEF Content
  <2> QED BY <2>1, Typed DEF TypeOK, FetchTypes
<1>2. ASSUME NEW i \in Live', stored'[i] # Nothing
      PROVE  i \in Live /\ stored[i] # Nothing /\ stored'[i] = stored[i]
  <2>1. i \in IDs /\ stored'[i] = stored[i]
    BY DEF Live, Quiet
  <2>2. i # nextId
    BY <1>2, <2>1, Typed DEF TableHomes
  <2> QED BY <1>2, <2>1, <2>2, RowsStayOrCome
<1>3. ASSUME NEW i \in Live', stored'[i] # Nothing
      PROVE  stored'[i].ver <= published'[stored'[i].src]
  <2>1. i \in IDs /\ stored[i].ver <= published[stored[i].src]
    BY <1>2, <1>3, Typed DEF VersionsGrow
  <2> QED BY <1>1, <1>2, <1>3, <2>1
<1>4. ASSUME Storing' \/ (step' \in {"lookup", "flag", "save"} /\ fetched'.result = "ok")
      PROVE  /\ fetched'.ver <= published'[fetched'.final]
             /\ job' \in Live' /\ stored'[job'] # Nothing => stored'[job'].ver <= fetched'.ver
  BY <1>1, <1>2, <1>4 DEF VersionsGrow
<1> QED BY <1>3, <1>4 DEF VersionsGrow

LEMMA RefreshKeepsBacked ==
    ASSUME TypeOK, TypeOK', HomeInv, BackedInv, LostInv, Advance, [Next]_vars, Remember
    PROVE  BackedInv'
<1> USE DEF tableVars, refreshVars
<1>1. /\ TableHomes /\ RefreshHomes /\ RequestHomes
      /\ TableBacked /\ RefreshBacked /\ RequestsBacked /\ VersionsGrow
  BY DEF HomeInv, BackedInv
<1>2. job \in IDs /\ (step # "idle" => job < nextId)
  BY <1>1, Typed DEF RefreshHomes
<1>3. ASSUME Quiet, NEW j \in IDs, j = job, step # "idle", NEW v, BackedSoon(j, v)
      PROVE  BackedSoon(j, v)'
  BY <1>2, <1>3, BackedStays
\* What is left to show of a quiet step of Refresh.
<1>4. ASSUME Quiet, UNCHANGED <<req, published>>, RefreshBacked',
             \A i \in Live' :
                 /\ i \in Live
                 /\ feeds'[i].val = feeds[i].val \/ BackedSoon(i, feeds'[i].val),
             Storing' \/ (step' \in {"lookup", "flag", "save"} /\ fetched'.result = "ok") =>
                 /\ Storing \/ (step \in {"lookup", "flag", "save"} /\ fetched.result = "ok")
                 /\ fetched' = fetched /\ job' = job
      PROVE  BackedInv'
  <2>1. TableBacked'
    BY <1>1, <1>4, TableStaysBacked
  <2>2. RequestsBacked'
    BY <1>1, <1>4, RequestsStayBacked
  <2>3. \A u \in URLs : published[u] <= published'[u]
    BY <1>4 DEF TypeOK
  <2>4. VersionsGrow'
    BY <1>1, <1>4, <2>3, VersionsStay
  <2> QED BY <1>4, <2>1, <2>2, <2>4 DEF BackedInv
<1>5. ASSUME step' = "idle" PROVE RefreshBacked' /\ ~Storing'
  BY <1>5 DEF RefreshBacked, Storing
<1>6. ASSUME NEW id, NEW r \in Rows, Update(id, r)
      PROVE  /\ Live' = Live /\ id \in Live
             /\ feeds'[id] = r /\ \A i \in Live \ {id} : feeds'[i] = feeds[i]
  BY <1>6, Typed, RowTypes DEF Update, CanUpdate, Live, Tables
<1>7. CASE FetchFails
  <2>1. Quiet
    BY <1>7 DEF FetchFails, Quiet, Storing
  <2>2. RefreshBacked'
    BY <1>1, <1>2, <1>3, <1>7, <2>1 DEF FetchFails, RefreshBacked
  <2> QED BY <1>4, <1>7, <2>1, <2>2 DEF FetchFails, Storing, Live
<1>8. CASE FetchAnswers
  <2>1. Quiet
    BY <1>8 DEF FetchAnswers, Quiet, Storing
  <2>2. RefreshBacked'
    BY <1>1, <1>2, <1>3, <1>8, <2>1 DEF FetchAnswers, RefreshBacked
  <2>3. TableBacked' /\ RequestsBacked'
    BY <1>1, <1>8, <2>1, TableStaysBacked, RequestsStayBacked DEF FetchAnswers, Live
  \* What is stored came from where the feed leads, and is no newer than what
  \* is published there now.
  <2>4. job \in Live /\ stored[job] # Nothing => stored[job].ver <= published[Target[row.url]]
    BY <1>1, <1>8
    DEF FetchAnswers, VersionsGrow, RefreshHomes, SameHome, TableHomes, ArticlesFromOwnURL
  <2>5. fetched'.final = Target[row.url] /\ fetched'.ver = published[Target[row.url]]
        /\ published[Target[row.url]] \in Nat
    BY <1>8, Typed, RefresherAssumption DEF FetchAnswers, TypeOK, Rows
  <2>6. VersionsGrow'
    BY <1>1, <1>8, <2>4, <2>5 DEF FetchAnswers, VersionsGrow, Storing, Live
  <2> QED BY <2>2, <2>3, <2>6 DEF BackedInv
<1>9. CASE Collide
  <2>1. PICK o \in Live \ {job} :
            /\ row' = [row EXCEPT !.cand = o]
            /\ other' = [id |-> o, row |-> [feeds[o] EXCEPT !.cand = job]]
    BY <1>9 DEF Collide
  <2>2. row'.val = row.val /\ other'.id = o /\ other'.row.val = feeds[o].val
    BY <2>1, Typed DEF Rows
  <2>3. Quiet
    BY <1>9 DEF Collide, Quiet, Storing
  <2>4. o \in IDs /\ o < nextId /\ BackedSoon(o, feeds[o].val)
    BY <1>1, <2>1, Typed DEF TableHomes, TableBacked
  <2>5. ASSUME NEW v, v = feeds[o].val PROVE BackedSoon(o, v)'
    BY <2>3, <2>4, <2>5, BackedStays
  <2>6. RefreshBacked'
    BY <1>1, <1>2, <1>3, <1>9, <2>2, <2>3, <2>5 DEF Collide, RefreshBacked
  <2> QED BY <1>4, <1>9, <2>3, <2>6 DEF Collide, Storing, Live
<1>10. CASE Adopt
  <2>1. row'.val = row.val
    BY <1>10, Typed DEF Adopt, Rows
  <2>2. Quiet
    BY <1>10 DEF Adopt, Quiet, Storing
  <2>3. RefreshBacked'
    BY <1>1, <1>2, <1>3, <1>10, <2>1, <2>2 DEF Adopt, RefreshBacked
  <2> QED BY <1>4, <1>10, <2>2, <2>3 DEF Adopt, Storing, Live
<1>11. CASE Flag
  <2>1. Quiet
    BY <1>11 DEF Flag, GoOn, Quiet, Storing
  <2>2. RefreshBacked'
    BY <1>1, <1>2, <1>3, <1>11, <2>1 DEF Flag, GoOn, RefreshBacked
  <2>3. other.row \in Rows /\ BackedSoon(other.id, other.row.val)
    BY <1>1, <1>11, Typed DEF Flag, RefreshBacked
  <2>4. \A i \in Live' : /\ i \in Live
                         /\ feeds'[i].val = feeds[i].val \/ BackedSoon(i, feeds'[i].val)
    BY <1>6, <1>11, <2>3 DEF Flag, UpdateFails, Live
  <2> QED BY <1>4, <1>11, <2>1, <2>2, <2>4 DEF Flag, GoOn, Storing
<1>12. CASE Save
  <2>1. /\ Outcome(row) \in Rows
        /\ fetched.result # "ok" => Outcome(row).val = row.val
        /\ fetched.result = "ok" => Outcome(row).val = New
    BY Typed, OutcomeTypes DEF Outcome, FetchTypes, Results, Rows, New
  <2>2. Quiet
    BY <1>12 DEF Save, Quiet, Storing
  <2>3. BackedSoon(job, row.val)
    BY <1>1, <1>12 DEF Save, RefreshBacked
  <2>4. CASE step' = "idle" /\ UNCHANGED feeds
    BY <1>4, <1>5, <1>12, <2>2, <2>4 DEF Save, Live
  <2>5. CASE Update(job, Outcome(row)) /\ fetched.result # "ok"
    <3>1. step' = "idle"
      BY <1>12, <2>5 DEF Save, Return, UpdateFails, Update
    <3>2. \A i \in Live' : /\ i \in Live
                           /\ feeds'[i].val = feeds[i].val \/ BackedSoon(i, feeds'[i].val)
      BY <1>6, <2>1, <2>3, <2>5
    <3> QED BY <1>4, <1>5, <1>12, <2>2, <3>1, <3>2 DEF Save
  \* The validators are ahead of the articles from here on.
  <2>6. CASE Update(job, Outcome(row)) /\ fetched.result = "ok" /\ GoOn("syncLoad")
    <3>1. /\ Live' = Live /\ job \in Live /\ feeds'[job].val = New
          /\ \A i \in Live \ {job} : feeds'[i].val = feeds[i].val
      BY <1>6, <2>1, <2>6
    <3>2. ASSUME NEW i \in Live', NEW v, v = feeds'[i].val PROVE BackedSoon(i, v)'
      <4>1. CASE i = job
        BY <2>6, <3>1, <3>2, <4>1 DEF GoOn, BackedSoon, Storing, New
      <4>2. CASE i # job
        <5>1. i \in IDs /\ i < nextId /\ BackedSoon(i, v)
          BY <1>1, <3>1, <3>2, <4>2, Typed DEF TableHomes, TableBacked
        <5> QED BY <2>2, <5>1, BackedStays
      <4> QED BY <4>1, <4>2
    <3>3. TableBacked'
      BY <3>2 DEF TableBacked
    <3>4. RefreshBacked'
      BY <1>1, <1>2, <1>3, <1>12, <2>2, <2>3, <2>6 DEF Save, GoOn, RefreshBacked
    <3>5. RequestsBacked'
      BY <1>1, <1>12, <2>2, RequestsStayBacked DEF Save
    <3>6. VersionsGrow'
      BY <1>1, <1>12, <2>6, <3>1 DEF Save, GoOn, VersionsGrow, Storing
    <3> QED BY <3>3, <3>4, <3>5, <3>6 DEF BackedInv
  <2> QED
    BY <1>12, <2>4, <2>5, <2>6 DEF Save, Return, UpdateFails
<1>13. ASSUME NEW needed, \/ Load("syncLoad", "syncMeta", needed) /\ needed = TRUE
                          \/ Load("iconLoad", "iconSave", needed)
       PROVE  BackedInv'
  <2>1. Quiet
    BY <1>13 DEF Load, Return, Quiet, Storing, Live
  <2>2. CASE step' = "idle"
    BY <1>4, <1>5, <1>13, <2>1, <2>2 DEF Load, Live
  <2>3. CASE job \in Live /\ row' = feeds[job] /\ UNCHANGED <<job, other, fetched>>
             /\ step' \in {"syncMeta", "iconSave"} /\ step # "idle"
    <3>1. BackedSoon(job, feeds[job].val)
      BY <1>1, <2>3 DEF TableBacked
    <3>2. RefreshBacked'
      BY <1>2, <1>3, <2>1, <2>3, <3>1 DEF RefreshBacked
    <3> QED BY <1>4, <1>13, <2>1, <2>3, <3>2 DEF Load, Return, Storing, Live
  <2> QED BY <1>13, <2>2, <2>3 DEF Load, Return
<1>14. CASE SyncMeta
  <2>1. BackedSoon(job, row.val)
    BY <1>1, <1>14 DEF SyncMeta, RefreshBacked
  <2>2. CASE Update(job, row) /\ GoOn("articles")
    <3>1. Quiet
      BY <1>14, <2>2 DEF SyncMeta, GoOn, Quiet, Storing
    <3>2. RefreshBacked'
      BY <1>1, <1>2, <1>3, <1>14, <2>2, <3>1 DEF SyncMeta, GoOn, RefreshBacked
    <3>3. \A i \in Live' : /\ i \in Live
                           /\ feeds'[i].val = feeds[i].val \/ BackedSoon(i, feeds'[i].val)
      BY <1>6, <2>1, <2>2, Typed
    <3> QED BY <1>4, <1>14, <2>2, <3>1, <3>2, <3>3 DEF SyncMeta, GoOn, Storing
  <2>3. CASE UpdateFails(job, row) /\ Return
    <3>1. UNCHANGED feeds /\ step' = "idle"
      BY <1>14, <2>3 DEF SyncMeta, UpdateFails, Return
    <3>2. Quiet
      BY <1>14, <3>1 DEF SyncMeta, Quiet, Storing
    <3> QED BY <1>4, <1>5, <1>14, <3>1, <3>2 DEF SyncMeta, Live
  <2> QED BY <1>14, <2>2, <2>3 DEF SyncMeta
\* The articles catch up with the validators, and replace older ones.
<1>15. CASE StoreArticles
  <2>1. /\ stored' = [stored EXCEPT ![job] = New] /\ New # Nothing /\ job \in Live
        /\ feeds' = feeds /\ UNCHANGED <<nextId, published, req, row, fetched, job>>
        /\ step = "articles" /\ step' = "iconLoad"
    <3>1. New \in Content
      BY Typed DEF New, FetchTypes, Content
    <3> QED BY <1>15, <3>1, RefresherAssumption DEF StoreArticles, GoOn, New
  <2>2. New.src = fetched.final /\ New.ver = fetched.ver /\ New.ver \in Nat
    BY Typed DEF New, FetchTypes
  <2>3. /\ stored[job] # Nothing => stored[job].src = New.src /\ stored[job].ver <= New.ver
        /\ \A v \in lost[job] : v \in Content /\ v.src = New.src /\ v.ver <= New.ver
    <3>1. fetched.final = Target[feeds[job].url]
      BY <1>1, <2>1 DEF RefreshHomes, SameHome
    <3> QED
      BY <1>1, <1>2, <2>1, <2>2, <3>1
      DEF TableHomes, ArticlesFromOwnURL, VersionsGrow, LostInv, Storing
  <2>4. \A c \in Content : c.ver \in Nat
    BY DEF Content
  <2>5. ASSUME NEW i, NEW v \in Content \cup {Nothing}, BackedSoon(i, v) PROVE BackedSoon(i, v)'
    <3>1. i \in Live' => i \in Live /\ i \in IDs
      BY <2>1 DEF Live
    <3>2. CASE i = job
      <4>1. stored'[i] = New
        BY <2>1, <3>2, Typed
      <4>2. v = Nothing \/ v = New \/ (New.src = v.src /\ New.ver >= v.ver)
        BY <2>1, <2>2, <2>3, <2>4, <2>5, <3>2, Typed DEF BackedSoon, Backed
      <4>3. Backed(i, v)'
        BY <2>1, <2>2, <4>1, <4>2 DEF Backed
      <4> QED BY <4>3 DEF BackedSoon
    <3>3. CASE i # job
      <4>1. i \in IDs => lost'[i] = lost[i]
        BY <3>3 DEF Remember, LostInv
      <4> QED BY <2>1, <2>5, <3>1, <3>3, <4>1, Typed DEF BackedSoon, Backed
    <3> QED BY <3>2, <3>3
  <2>6. \A r \in Rows : r.val \in Content \cup {Nothing}
    BY DEF Rows
  <2>7. TableBacked'
    BY <1>1, <2>1, <2>5, <2>6, Typed DEF TableBacked, Live
  <2>8. RefreshBacked'
    BY <1>1, <2>1, <2>5, <2>6, Typed DEF RefreshBacked
  <2>9. RequestsBacked'
    BY <1>1, <2>1, <2>5, <2>6, Typed DEF RequestsBacked, RequestTypes
  <2>10. VersionsGrow'
    BY <1>1, <2>1, <2>2, Typed DEF VersionsGrow, Storing, Live
  <2> QED BY <2>7, <2>8, <2>9, <2>10 DEF BackedInv
<1>16. CASE SyncFails
  <2>1. Quiet
    BY <1>16 DEF SyncFails, Return, Quiet, Storing
  <2> QED BY <1>4, <1>5, <1>16, <2>1 DEF SyncFails, Return, Live
<1>17. CASE IconSave
  <2>1. [row EXCEPT !.icon = TRUE] \in Rows /\ [row EXCEPT !.icon = TRUE].val = row.val
    BY Typed DEF Rows
  <2>2. Quiet /\ BackedSoon(job, row.val) /\ step' = "idle"
    BY <1>1, <1>17 DEF IconSave, Return, Quiet, Storing, RefreshBacked
  <2>3. \A i \in Live' : /\ i \in Live
                         /\ feeds'[i].val = feeds[i].val \/ BackedSoon(i, feeds'[i].val)
    BY <1>6, <1>17, <2>1, <2>2 DEF IconSave, Live
  <2> QED BY <1>4, <1>5, <1>17, <2>2, <2>3 DEF IconSave
<1> QED
  BY <1>7, <1>8, <1>9, <1>10, <1>11, <1>12, <1>13, <1>14, <1>15, <1>16, <1>17
  DEF Advance, SyncLoad, IconLoad

LEMMA RequestsKeepBacked ==
    ASSUME TypeOK, TypeOK', HomeInv, BackedInv, LostInv, [Next]_vars, Remember,
           NEW h \in Handlers,
           Edits(h) \/ Subscriptions(h) \/ Merges(h)
    PROVE  BackedInv'
<1> USE DEF tableVars, handlerUnchanged
<1>1. /\ TableHomes /\ RefreshHomes /\ RequestHomes
      /\ TableBacked /\ RefreshBacked /\ RequestsBacked /\ VersionsGrow
  BY DEF HomeInv, BackedInv
<1>2. req[h] \in RequestTypes /\ NoRequest \in RequestTypes
  BY Typed, RecordTypes
<1>3. UNCHANGED <<published, refreshVars>>
  <2>1. CASE Edits(h)
    BY <2>1 DEF Edits, EditLoad, EditCheck, EditSave
  <2>2. CASE Subscriptions(h)
    BY <2>2 DEF Subscriptions, Subscribe, ImportSave, SubscribeCreate
  <2>3. CASE Merges(h)
    BY <2>3 DEF Merges, MergeForm, MergeSubmit, Merge
  <2> QED BY <2>1, <2>2, <2>3
\* What is left to show: the articles are left alone, and what is written or
\* kept for later is backed.
<1>4. ASSUME \A i \in Live' : stored'[i] = stored[i],
             \A i \in Live' :
                 \/ feeds'[i].val = Nothing
                 \/ /\ i \in Live
                    /\ feeds'[i].val = feeds[i].val \/ BackedSoon(i, feeds'[i].val),
             NEW q \in RequestTypes, Goes(h, q),
             q.at \in Holding => q.id < nextId /\ BackedSoon(q.id, q.row.val),
             q.at = "create" => q.row.val = Nothing
      PROVE  BackedInv'
  <2>1. Quiet
    BY <1>3, <1>4 DEF Quiet, refreshVars, Storing
  <2>2. TableBacked' /\ RefreshBacked' /\ RequestsBacked'
    BY <1>1, <1>3, <1>4, <2>1, TableStaysBacked, RefreshStaysBacked, RequestsStayBacked
  <2>3. \A u \in URLs : published[u] <= published'[u]
    BY <1>3 DEF TypeOK
  <2>4. VersionsGrow'
    BY <1>1, <1>3, <2>1, <2>3, VersionsStay DEF refreshVars, Storing
  <2> QED BY <2>2, <2>4 DEF BackedInv
<1>5. ASSUME UNCHANGED tableVars
      PROVE  /\ \A i \in Live' : stored'[i] = stored[i]
             /\ \A i \in Live' : i \in Live /\ feeds'[i].val = feeds[i].val
  BY <1>5 DEF Live
<1>6. NoRequest.at \notin Holding /\ NoRequest.at # "create"
  BY DEF NoRequest, Holding
<1>7. ASSUME NEW i \in Live, NEW u \in URLs, NEW d \in Folders
      PROVE  /\ i \in IDs /\ i < nextId /\ BackedSoon(i, feeds[i].val)
             /\ [feeds[i] EXCEPT !.url = u, !.folder = d] \in Rows
             /\ [feeds[i] EXCEPT !.url = u, !.folder = d].val = feeds[i].val
             /\ [feeds[i] EXCEPT !.folder = d] \in Rows
             /\ [feeds[i] EXCEPT !.folder = d].val = feeds[i].val
  BY <1>1, Typed DEF Rows, TableHomes, TableBacked
<1>8. ASSUME NEW id \in IDs, NEW u \in URLs, NEW d \in Folders, EditLoad(h, id, u, d)
      PROVE  BackedInv'
  <2> DEFINE r == [feeds[id] EXCEPT !.url = u, !.folder = d]
  <2>1. id \in Live /\ UNCHANGED tableVars
    BY <1>8 DEF EditLoad
  <2>2. r \in Rows /\ r.val = feeds[id].val /\ id < nextId /\ BackedSoon(id, r.val)
    BY <1>1, <2>1, Typed DEF Rows, TableHomes, TableBacked
  <2>3. \E at \in {"save", "check"} : Goes(h, [at |-> at, id |-> id, row |-> r, aim |-> NoFeed])
    BY <1>8 DEF EditLoad
  <2> HIDE DEF r
  <2>4. PICK at \in {"save", "check"} : Goes(h, [at |-> at, id |-> id, row |-> r, aim |-> NoFeed])
    BY <2>3
  <2> DEFINE q == [at |-> at, id |-> id, row |-> r, aim |-> NoFeed]
  <2>5. q \in RequestTypes /\ q.id = id /\ q.row = r /\ q.at # "create"
    BY <2>2 DEF RequestTypes, Places
  <2>6. Goes(h, q)
    BY <2>4
  <2> HIDE DEF q
  <2> QED BY <1>4, <1>5, <2>1, <2>2, <2>5, <2>6
<1>9. CASE EditCheck(h)
  <2> DEFINE q == [req[h] EXCEPT !.at = "save"]
  <2>1. q \in RequestTypes /\ q.id = req[h].id /\ q.row = req[h].row /\ q.at = "save"
    BY <1>2 DEF RequestTypes, Places
  <2>2. q.id < nextId /\ BackedSoon(q.id, q.row.val)
    BY <1>1, <1>9, <2>1 DEF EditCheck, RequestHomes, RequestsBacked, Holding
  <2>3. Goes(h, q) \/ Goes(h, NoRequest)
    BY <1>9 DEF EditCheck, Ends
  <2>4. UNCHANGED tableVars
    BY <1>9 DEF EditCheck
  <2> HIDE DEF q
  <2> QED BY <1>2, <1>4, <1>5, <1>6, <2>1, <2>2, <2>3, <2>4
<1>10. CASE EditSave(h) \/ ImportSave(h)
  <2>1. /\ req[h].row \in Rows /\ BackedSoon(req[h].id, req[h].row.val)
    BY <1>1, <1>2, <1>10 DEF EditSave, ImportSave, RequestsBacked, RequestTypes, Holding
  <2>2. stored' = stored /\ Goes(h, NoRequest)
    BY <1>10 DEF EditSave, ImportSave, Ends
  <2>3. UNCHANGED feeds \/ Update(req[h].id, req[h].row)
    BY <1>10 DEF EditSave, ImportSave, UpdateFails
  <2>4. \A i \in Live' : /\ i \in Live
                         /\ feeds'[i].val = feeds[i].val \/ BackedSoon(i, feeds'[i].val)
    BY <2>1, <2>3, Typed DEF Update, CanUpdate, Live, Tables
  <2> QED BY <1>2, <1>4, <1>6, <2>2, <2>4
<1>11. ASSUME NEW u \in URLs, NEW d \in Folders, Subscribe(h, u, d) PROVE BackedInv'
  <2> DEFINE new == [NoRequest EXCEPT !.at = "create", !.row = NewRow(u, d)]
             old(i) == [at |-> "importSave", id |-> i,
                        row |-> [feeds[i] EXCEPT !.folder = d], aim |-> NoFeed]
  <2>1. UNCHANGED tableVars
    BY <1>11 DEF Subscribe
  <2>2. new \in RequestTypes /\ new.at = "create" /\ new.row.val = Nothing
    BY RowTypes, RecordTypes DEF RequestTypes, Places, NoRequest, NewRow
  <2>3. ASSUME NEW i \in Live
        PROVE  /\ old(i) \in RequestTypes /\ old(i).at = "importSave"
               /\ old(i).id < nextId /\ BackedSoon(old(i).id, old(i).row.val)
    BY <1>7, <2>3, <1>11 DEF RequestTypes, Places
  <2>4. Goes(h, new) \/ \E i \in Live : Goes(h, old(i))
    BY <1>11 DEF Subscribe
  <2> HIDE DEF new, old
  <2> QED BY <1>4, <1>5, <2>1, <2>2, <2>3, <2>4 DEF Holding
<1>12. CASE SubscribeCreate(h)
  <2>1. Goes(h, NoRequest)
    BY <1>12 DEF SubscribeCreate, Ends
  <2>2. CASE UNCHANGED tableVars
    BY <1>2, <1>4, <1>5, <1>6, <2>1, <2>2
  <2>3. CASE Create(req[h].row)
    <3>1. req[h].row.val = Nothing
      BY <1>1, <1>12 DEF SubscribeCreate, RequestsBacked
    <3>2. \A i \in Live' : \/ feeds'[i].val = Nothing
                           \/ i \in Live /\ feeds'[i].val = feeds[i].val
      BY <2>3, <3>1, Typed DEF Create, Live, Tables
    <3> QED BY <1>2, <1>4, <1>6, <2>1, <2>3, <3>2 DEF Create
  <2> QED BY <1>12, <2>2, <2>3 DEF SubscribeCreate
<1>13. ASSUME NEW id \in IDs, MergeForm(h, id) \/ MergeSubmit(h, id) PROVE BackedInv'
  <2> DEFINE form == [NoRequest EXCEPT !.at = "form", !.id = id, !.aim = feeds[id].cand]
             cand == feeds[req[h].id].cand
             merge == [req[h] EXCEPT !.at = "merge", !.id = id,
                                     !.aim = IF id = cand THEN req[h].id ELSE cand]
  <2>1. form.at = "form" /\ merge.at = "merge" /\ UNCHANGED tableVars
    BY <1>2, <1>13 DEF RequestTypes, NoRequest, MergeForm, MergeSubmit
  <2>2. Goes(h, NoRequest) \/ Goes(h, form) \/ Goes(h, merge)
    BY <1>13 DEF MergeForm, MergeSubmit, Ends
  <2>3. req' \in [Handlers -> RequestTypes]
    BY DEF TypeOK, RequestTypes, Places
  <2> HIDE DEF form, merge
  <2>4. ASSUME NEW q, Goes(h, q) PROVE q \in RequestTypes
    <3>1. req'[h] = q
      BY <2>4, Typed DEF Goes
    <3> QED BY <2>3, <3>1
  <2> QED BY <1>2, <1>4, <1>5, <1>6, <2>1, <2>2, <2>4 DEF Holding
<1>14. CASE Merge(h)
  <2>1. Goes(h, NoRequest)
    BY <1>14 DEF Merge, Ends
  <2>2. \A i \in Live' : i \in Live /\ feeds'[i].val = feeds[i].val
    BY <1>14, MergeRemoves DEF Removed, Live
  <2>3. \A i \in Live' : stored'[i] = stored[i]
    <3>1. CASE stored' = stored
      BY <3>1
    <3>2. CASE /\ req[h].id \in Live /\ req[h].aim \in Live
               /\ feeds' = Deleted([feeds EXCEPT ![req[h].id].cand = NoFeed], req[h].aim)
               /\ stored' = [stored EXCEPT ![req[h].aim] = Nothing]
      <4>1. feeds'[req[h].aim] = NoRow
        BY <3>2, Typed DEF Deleted
      <4> QED BY <3>2, <4>1, Typed DEF Live
    <3> QED BY <1>14, <3>1, <3>2 DEF Merge
  <2> QED BY <1>2, <1>4, <1>6, <2>1, <2>2, <2>3
<1>15. CASE Edits(h)
  BY <1>8, <1>9, <1>10, <1>15 DEF Edits
<1>16. CASE Subscriptions(h)
  BY <1>10, <1>11, <1>12, <1>16 DEF Subscriptions
<1>17. CASE Merges(h)
  BY <1>13, <1>14, <1>17 DEF Merges
<1> QED
  BY <1>15, <1>16, <1>17

LEMMA BackedInductive ==
    ASSUME TypeOK, TypeOK', HomeInv, BackedInv, LostInv, [Next]_vars, Remember
    PROVE  BackedInv'
<1> USE DEF tableVars, refreshVars, handlerUnchanged
<1>1. /\ TableHomes /\ RefreshHomes /\ RequestHomes
      /\ TableBacked /\ RefreshBacked /\ RequestsBacked /\ VersionsGrow
  BY DEF HomeInv, BackedInv
<1>2. \A u \in URLs : published[u] <= published[u]
  BY DEF TypeOK
<1>3. CASE Crash
  <2>1. Quiet
    BY <1>3 DEF Crash, Return, Quiet, Storing
  <2>2. TableBacked'
    BY <1>1, <1>3, <2>1, TableStaysBacked DEF Crash, Live
  <2>3. RefreshBacked' /\ RequestsBacked'
    BY <1>3 DEF Crash, Return, RefreshBacked, RequestsBacked, NoRequest, Holding
  <2>4. VersionsGrow'
    BY <1>1, <1>2, <1>3, <2>1, VersionsStay DEF Crash, Return, Storing
  <2> QED BY <2>2, <2>3, <2>4 DEF BackedInv
<1>4. ASSUME NEW id \in IDs, Begin(id) PROVE BackedInv'
  <2>1. Quiet
    BY <1>4 DEF Begin, Quiet, Storing
  <2>2. TableBacked' /\ RequestsBacked'
    BY <1>1, <1>4, <2>1, TableStaysBacked, RequestsStayBacked DEF Begin, Live
  <2>3. id < nextId /\ BackedSoon(id, feeds[id].val)
    BY <1>1, <1>4 DEF Begin, TableHomes, TableBacked
  <2>4. ASSUME NEW v, v = feeds[id].val PROVE BackedSoon(id, v)'
    BY <2>1, <2>3, <2>4, BackedStays
  <2>5. RefreshBacked'
    BY <1>4, <2>4 DEF Begin, RefreshBacked
  <2>6. VersionsGrow'
    BY <1>1, <1>2, <1>4, <2>1, VersionsStay DEF Begin, Storing
  <2> QED BY <2>2, <2>5, <2>6 DEF BackedInv
<1>5. ASSUME NEW id \in IDs, Delete(id) PROVE BackedInv'
  <2>1. Removed
    BY <1>5, RemovedBy, Typed DEF Delete
  <2>2. \A i \in Live' : i \in Live /\ feeds'[i].val = feeds[i].val
    BY <2>1 DEF Removed, Live
  <2>3. \A i \in Live' : stored'[i] = stored[i]
    <3>1. feeds'[id] = NoRow
      BY <1>5 DEF Delete, Deleted
    <3> QED BY <1>5, <3>1, Typed DEF Delete, Live
  <2>4. Quiet
    BY <1>5, <2>3 DEF Delete, Quiet, Storing
  <2>5. TableBacked' /\ RefreshBacked' /\ RequestsBacked'
    BY <1>1, <1>5, <2>2, <2>4, TableStaysBacked, RefreshStaysBacked, RequestsStayBacked
    DEF Delete
  <2>6. VersionsGrow'
    BY <1>1, <1>2, <1>5, <2>4, VersionsStay DEF Delete, Storing
  <2> QED BY <2>5, <2>6 DEF BackedInv
<1>6. CASE (\E u \in URLs : Publish(u)) \/ UNCHANGED vars
  <2>1. UNCHANGED <<tableVars, refreshVars, req>>
    BY <1>6 DEF Publish, vars
  <2>2. Quiet
    BY <2>1 DEF Quiet, Storing
  <2>3. TableBacked' /\ RefreshBacked' /\ RequestsBacked'
    BY <1>1, <2>1, <2>2, TableStaysBacked, RefreshStaysBacked, RequestsStayBacked DEF Live
  <2>4. \A u \in URLs : published[u] <= published'[u]
    BY <1>6 DEF Publish, vars, TypeOK
  <2>5. VersionsGrow'
    BY <1>1, <2>1, <2>2, <2>4, VersionsStay DEF Storing
  <2> QED BY <2>3, <2>5 DEF BackedInv
<1> QED
  BY <1>3, <1>4, <1>5, <1>6, RefreshKeepsBacked, RequestsKeepBacked DEF Next

LEMMA BackedInitially == Init => BackedInv
<1> SUFFICES ASSUME Init PROVE BackedInv
  OBVIOUS
<1>1. \A i \in Live : Backed(i, feeds[i].val)
  BY DEF Init, Backed, NewRow, Live
<1>2. TableBacked
  BY <1>1 DEF TableBacked, BackedSoon
<1> QED
  BY <1>2 DEF Init, BackedInv, RefreshBacked, RequestsBacked, VersionsGrow, NoRequest,
              Holding, Storing, Live

LEMMA BackedOutside ==
    ASSUME TypeOK, BackedInv
    PROVE  ValidatorBacked
<1>1. \A i \in Live : i \in IDs /\ BackedSoon(i, feeds[i].val)
  BY Typed DEF BackedInv, TableBacked
<1> QED BY <1>1 DEF BackedSoon, Backed, Storing, ValidatorBacked

\* A validator is stored a step before the articles it came with, and from then
\* on the server may answer 304, on which "the caller should keep whatever it
\* already had stored" (fetch.go:19): outside that step it names more than is
\* stored only if that very refresh was cut off, until articles are stored again,
\* whatever redirects, handlers, failing queries and crashes there are.  Only
\* URLs are not edited.
THEOREM ValidatorsBacked ==
    ASSUME "edit" \notin Ops
    PROVE  HistorySpec => []ValidatorBacked
<1> DEFINE I == HomeInv /\ BackedInv /\ LostInv
<1>1. Init /\ lost = [i \in IDs |-> {}] => I
  <2> SUFFICES ASSUME Init, lost = [i \in IDs |-> {}] PROVE LostInv
    BY HomesInitially, BackedInitially
  <2> QED BY DEF Init, LostInv, Storing, Live
<1>2. [NextRemembered]_<<vars, lost>> => [Next]_vars /\ Remember
  BY DEF NextRemembered, Remember, Storing, vars, refreshVars
<1>3. TypeOK /\ TypeOK' /\ I /\ [NextRemembered]_<<vars, lost>> => I'
  <2> SUFFICES ASSUME TypeOK, TypeOK', I, [Next]_vars, Remember PROVE I'
    BY <1>2
  <2>1. KeepsHomes /\ HomeInv'
    BY HomesInductive
  <2>2. LostInv'
    BY <2>1, LostInductive DEF BackedInv
  <2>3. BackedInv'
    BY BackedInductive
  <2> QED BY <2>1, <2>2, <2>3
<1>4. TypeOK /\ I => ValidatorBacked
  BY BackedOutside
<1>5. HistorySpec => Spec
  BY <1>2, PTL DEF HistorySpec, Spec
<1> HIDE DEF I
<1>6. QED
  BY <1>1, <1>3, <1>4, <1>5, TypeCorrect, PTL DEF HistorySpec
================================================================================
