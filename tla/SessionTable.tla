----------------------------- MODULE SessionTable -----------------------------
(***************************************************************************)
(* The in-memory SessionStore as a table of sessions: its limit, the       *)
(* deadlines, what a read does to a session past its deadline, and the     *)
(* cleanup, which tells a session's participants that it is over, closes   *)
(* their sockets and later deletes it.  SigningServer has what happens     *)
(* inside one session; here each has one participant and the socket that   *)
(* it is on.                                                               *)
(***************************************************************************)
EXTENDS Naturals, FiniteSets

CONSTANTS
  Sessions,    \* session ids
  MaxSessions, \* maxSessions
  NoEntry      \* undefined

ASSUME TableAssumption == MaxSessions \in Nat \ {0}

VARIABLES
  table,    \* sessions: the record of each id, or NoEntry
  deadline, \* of each session: before it, past it, five minutes past it
  socket    \* where each session's participant is connected

tableVars == <<table, deadline, socket>>

TableStatuses == {"waiting", "transaction-received", "completed", "expired"}
TableEntries == [status : TableStatuses, bounded : BOOLEAN]
Deadlines == {"valid", "past", "over"}

\* "first" is the socket addParticipant stored, "later" one that came back with
\* a token, which the session's record does not know.
Sockets == {"none", "first", "later", "closed"}

TableInit ==
  /\ table = [i \in Sessions |-> NoEntry]
  /\ deadline = [i \in Sessions |-> "valid"]
  /\ socket = [i \in Sessions |-> "none"]

Present == {i \in Sessions : table[i] # NoEntry}
Elapsed(i) == table[i].bounded /\ deadline[i] # "valid"

\* Mutation: one session above the limit.
HasRoomAtLimit == Cardinality(Present) <= MaxSessions

HasRoom == Cardinality(Present) < MaxSessions

\* createSession.  An id is used once.
CreateSession(i, status, bounded) ==
  /\ table[i] = NoEntry /\ deadline[i] = "valid" /\ socket[i] = "none"
  /\ HasRoom
  /\ table' = [table EXCEPT ![i] = [status |-> status, bounded |-> bounded]]
  /\ UNCHANGED <<deadline, socket>>

\* getSession, called for every message about a session.
GetSession(i) ==
  /\ i \in Present /\ Elapsed(i)
  /\ table' = [table EXCEPT ![i].status = "expired"]
  /\ UNCHANGED <<deadline, socket>>

\* authenticate and addParticipant.
Join(i) ==
  /\ i \in Present /\ ~Elapsed(i) /\ socket[i] = "none"
  /\ table[i].status \in {"waiting", "transaction-received"}
  /\ socket' = [socket EXCEPT ![i] = "first"]
  /\ UNCHANGED <<table, deadline>>

\* The connection is lost, then made again with the token.
Return(i) ==
  /\ i \in Present /\ ~Elapsed(i) /\ socket[i] = "first"
  /\ socket' = [socket EXCEPT ![i] = "later"]
  /\ UNCHANGED <<table, deadline>>

\* updateStatus at the end of an execution, of what was injected at any time.  It may
\* outlast the deadline, and then overwrites the mark of a read or a cleanup too.
Complete(i) ==
  /\ i \in Present /\ table[i].status # "completed"
  /\ table' = [table EXCEPT ![i].status = "completed"]
  /\ UNCHANGED <<deadline, socket>>

\* Mutation: deletion is left to the pass that announces.
DeletesWhenAnnouncing(i) == deadline[i] = "over" /\ table[i].status # "expired"

\* Five minutes past expiresAt.
Deletes(i) == deadline[i] = "over"

\* Sessions a pass of _cleanupExpiredSessions is about.
Reaped == {i \in Present : Elapsed(i) /\ table[i].status # "completed"}

\* _cleanupExpiredSessions.  Those it finds not yet marked it announces to the
\* sockets that the records know.
CleanupSessions ==
  /\ Reaped # {}
  /\ table' = [i \in Sessions |->
                 IF i \notin Reaped THEN table[i]
                 ELSE IF Deletes(i) THEN NoEntry
                 ELSE [table[i] EXCEPT !.status = "expired"]]
  /\ socket' = [i \in Sessions |->
                  IF /\ i \in Reaped /\ table[i].status # "expired"
                     /\ socket[i] = "first"
                  THEN "closed" ELSE socket[i]]
  /\ UNCHANGED deadline

\* A session's expiresAt passes, then five minutes.
TableTick(i) ==
  /\ i \in Present /\ table[i].bounded /\ deadline[i] # "over"
  /\ deadline' = [deadline EXCEPT ![i] = IF @ = "valid" THEN "past" ELSE "over"]
  /\ UNCHANGED <<table, socket>>

TableNext ==
  \/ \E i \in Sessions :
       \/ \E s \in {"waiting", "transaction-received"}, b \in BOOLEAN :
            CreateSession(i, s, b)
       \/ GetSession(i) \/ Join(i) \/ Return(i) \/ Complete(i) \/ TableTick(i)
  \/ CleanupSessions

\* Time passes and the cleanup's timer fires.
TableFairness ==
  /\ \A i \in Sessions : WF_tableVars(TableTick(i))
  /\ WF_tableVars(CleanupSessions)

TableSpec == TableInit /\ [][TableNext]_tableVars /\ TableFairness

-----------------------------------------------------------------------------
(* Properties *)

\* The type invariant.
TableTypeOK ==
  /\ table \in [Sessions -> TableEntries \cup {NoEntry}]
  /\ deadline \in [Sessions -> Deadlines]
  /\ socket \in [Sessions -> Sockets]
  /\ Cardinality(Present) <= MaxSessions

Lasting(i) == ~table[i].bounded \/ table[i].status = "completed"

\* A full table gets room again, unless all in it are unbounded or completed,
\* whenever reads mark sessions and whenever the cleanup comes round.
RoomAgain ==
  (Cardinality(Present) = MaxSessions /\ \A i \in Present : ~Lasting(i))
    ~> (Cardinality(Present) < MaxSessions \/ \E i \in Present : Lasting(i))
=============================================================================
