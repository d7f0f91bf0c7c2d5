-------------------------------- MODULE Edges --------------------------------
(***************************************************************************)
(* The transactions that write the versions of edges, statement by         *)
(* statement and row lock by row lock: assert_edges with assert_within,    *)
(* retract_derived_all and close_edge of crates/store/src/graph.rs.        *)
(*                                                                         *)
(* An edge is an identity, a row of relationships, and its versions, at    *)
(* most one of them live.  Edges are numbered in the order the statements  *)
(* sort them by.  A statement reads what was committed when it began: one  *)
(* that waits for a lock inside itself goes on with what it saw before the *)
(* wait.  Mentions takes each of these calls for one step.                 *)
(***************************************************************************)
EXTENDS Integers, Sequences, FiniteSets, FiniteSetsExt

CONSTANTS
  MaxEdge,
  Derived,    \* claims a derivation makes of an edge
  Linked,     \* claims somebody makes by hand
  Callers,    \* callers, each with at most one transaction
  NoClaim,
  MaxVersions  \* a bound: how many versions there are, of every edge together

Edge == 1 .. MaxEdge
EdgeClaims == Derived \cup Linked

ASSUME EdgesAssumption ==
  /\ MaxEdge \in Nat /\ MaxVersions \in Nat
  /\ Derived \cap Linked = {} /\ NoClaim \notin EdgeClaims

VARIABLES
  versions,  \* [Edge -> the versions of its identity, none if there is no such row]
  call       \* [Callers -> the call and its transaction]

edgeVars == <<versions, call>>

Version == [claim : EdgeClaims, live : BOOLEAN]

\* `want` is what it claims of each edge, or NoClaim of one it is to close; `seen`
\* the live versions its statement read; `passed` the identities it has inserted
\* or found, `made` those it inserted, `held` those it has locked.
Resting == [at |-> "idle", does |-> "assert", want |-> <<>>, seen |-> {},
            passed |-> {}, made |-> {}, held |-> {}]

Existing == {e \in Edge : versions[e] # <<>>}
LiveOf(e) == {v \in DOMAIN versions[e] : versions[e][v].live}
\* The live versions there are, as pairs of an edge and a number.
LiveVersions == UNION {{e} \X LiveOf(e) : e \in Edge}
ClaimOf(pair) == versions[pair[1]][pair[2]].claim

Call == [at : {"idle", "insert", "lock", "read", "append", "close"},
         does : {"assert", "close"},
         want : UNION {[edges -> EdgeClaims \cup {NoClaim}] : edges \in SUBSET Edge},
         seen : SUBSET (Edge \X Nat), passed : SUBSET Edge, made : SUBSET Edge,
         held : SUBSET Edge]

EdgesTypeOK ==
  /\ versions \in [Edge -> Seq(Version)]
  /\ call \in [Callers -> Call]
  /\ \A c \in Callers :
       /\ call[c].at \in {"idle", "insert", "read", "append"} => call[c].does = "assert"
       /\ call[c].does = "assert" =>
            \A e \in DOMAIN call[c].want : call[c].want[e] \in EdgeClaims

EdgesInit ==
  /\ versions = [e \in Edge |-> <<>>]
  /\ call = [c \in Callers |-> Resting]

Is(c, phase) == call[c].at = phase
Wanted(c) == DOMAIN call[c].want

\* Who else has the identity locked or, not committed yet, inserted.
HeldBy(c, e) == {d \in Callers \ {c} : e \in call[d].held}
MadeBy(c, e) == {d \in Callers \ {c} : e \in call[d].made}

Goes(c, record) == call' = [call EXCEPT ![c] = record] /\ UNCHANGED versions

-----------------------------------------------------------------------------
(* The calls.                                                              *)

\* assert_edges: what is live already as claimed is left out, and if that is all
\* of it no transaction begins.
BeginAssert(c) ==
  /\ Is(c, "idle")
  /\ \E edges \in SUBSET Edge \ {{}} : \E claims \in [edges -> EdgeClaims] :
       LET pending == {e \in edges : ~\E p \in LiveVersions : p[1] = e /\ ClaimOf(p) = claims[e]}
       IN /\ pending # {}
          /\ Goes(c, [Resting EXCEPT !.at = "insert",
                                     !.want = [e \in pending |-> claims[e]]])

\* retract_derived_all: the edges with something derived to close.
BeginRetract(c) ==
  /\ Is(c, "idle")
  /\ \E edges \in SUBSET Edge :
       LET doomed == {p \in LiveVersions : p[1] \in edges /\ ClaimOf(p) \in Derived}
       IN /\ doomed # {}
          /\ Goes(c, [Resting EXCEPT !.at = "lock", !.does = "close", !.seen = doomed,
                                     !.want = [e \in {p[1] : p \in doomed} |-> NoClaim]])

\* close_edge: one edge, whatever its claim.
CloseEdge(c) ==
  /\ Is(c, "idle")
  /\ \E e \in Existing :
       Goes(c, [Resting EXCEPT !.at = "lock", !.does = "close",
                               !.seen = {p \in LiveVersions : p[1] = e},
                               !.want = [x \in {e} |-> NoClaim]])

-----------------------------------------------------------------------------
(* The statements of assert_within.                                        *)

\* (mutant) the rows in whatever order they come.
AnyOrder(edges) == edges

\* The next identity a sorted statement comes to.
First(edges) == {e \in edges : \A d \in edges : e <= d}

\* 1. The insert of the identities that are missing, a row at a time.
InsertNext(c) ==
  /\ Is(c, "insert")
  /\ \E e \in First(Wanted(c) \ call[c].passed) :
       /\ MadeBy(c, e) = {}
       /\ Goes(c, [call[c] EXCEPT !.passed = @ \cup {e},
                                  !.made = IF e \in Existing THEN @ ELSE @ \cup {e}])

Inserted(c) ==
  /\ Is(c, "insert") /\ Wanted(c) = call[c].passed
  /\ Goes(c, [call[c] EXCEPT !.at = "lock", !.passed = {}])

\* (mutant) nobody is waited for.
LockNextUnlocked(c) ==
  /\ Is(c, "lock")
  /\ \E e \in First(Wanted(c) \ call[c].held) :
       Goes(c, [call[c] EXCEPT !.held = @ \cup {e}])

\* 2. The locks, in the same order; for a call that closes, within the statement
\* that has already read the versions.
LockNext(c) ==
  /\ Is(c, "lock")
  /\ \E e \in First(Wanted(c) \ call[c].held) :
       /\ HeldBy(c, e) = {}
       /\ Goes(c, [call[c] EXCEPT !.held = @ \cup {e}])

Locked(c) ==
  /\ Is(c, "lock") /\ Wanted(c) = call[c].held
  /\ Goes(c, [call[c] EXCEPT !.at = IF call[c].does = "close" THEN "close" ELSE "read"])

\* 3. The live versions, read once every lock is held.
ReadVersions(c) ==
  /\ Is(c, "read")
  /\ Goes(c, [call[c] EXCEPT !.at = "append",
                             !.seen = {p \in LiveVersions : p[1] \in Wanted(c)}])

\* A version that was read as live is closed if it still is.
Closed(e, seen) ==
  [v \in DOMAIN versions[e] |->
     [versions[e][v] EXCEPT !.live = @ /\ <<e, v>> \notin seen]]

\* 4. What a claim supersedes is closed and the claim appended, and it commits.
AppendVersions(c) ==
  LET t == call[c]
      unchanged == {e \in Wanted(c) :
                      \E p \in t.seen : p[1] = e /\ ClaimOf(p) = t.want[e]}
  IN /\ Is(c, "append")
     /\ Cardinality(Wanted(c)) + MapThenSumSet(LAMBDA e : Len(versions[e]), Edge) <= MaxVersions
     /\ versions' = [e \in Edge |->
                       IF e \in Wanted(c) \ unchanged
                         THEN Append(Closed(e, t.seen), [claim |-> t.want[e], live |-> TRUE])
                         ELSE versions[e]]
     /\ call' = [call EXCEPT ![c] = Resting]

\* The statement that closes ends, and with it its transaction.
CloseVersions(c) ==
  /\ Is(c, "close")
  /\ versions' = [e \in Edge |-> IF e \in Wanted(c) THEN Closed(e, call[c].seen) ELSE versions[e]]
  /\ call' = [call EXCEPT ![c] = Resting]

\* Anything fails, and the transaction rolls back.
RollBack(c) == ~Is(c, "idle") /\ Goes(c, Resting)

EdgesNext ==
  \E c \in Callers :
    \/ BeginAssert(c) \/ BeginRetract(c) \/ CloseEdge(c)
    \/ InsertNext(c) \/ Inserted(c) \/ LockNext(c) \/ Locked(c)
    \/ ReadVersions(c) \/ AppendVersions(c) \/ CloseVersions(c) \/ RollBack(c)

EdgesSpec == EdgesInit /\ [][EdgesNext]_edgeVars

-----------------------------------------------------------------------------
(* Properties.                                                             *)

\* Two assertions of an edge make one live version of it, the newest, whatever
\* other calls come between their statements (assert_within, close_edge).
OneLiveVersion ==
  \A e \in Edge : LiveOf(e) \subseteq {Len(versions[e])}

\* Whom a transaction waits for.
WaitsFor(c) ==
  CASE Is(c, "insert") -> UNION {MadeBy(c, e) : e \in First(Wanted(c) \ call[c].passed)}
    [] Is(c, "lock") -> UNION {HeldBy(c, e) : e \in First(Wanted(c) \ call[c].held)}
    [] OTHER -> {}

\* No two transactions wait for each other, directly or through a third: every
\* statement takes identities, and only identities, in one order.
NobodyWaitsInACircle ==
  \A c \in Callers : \A d \in WaitsFor(c) :
    /\ c \notin WaitsFor(d)
    /\ \A f \in WaitsFor(d) : c \notin WaitsFor(f)

\* What makes them inductive.  Nobody has an identity locked that another has,
\* and a statement has passed, or locked, what comes first of what it wants.
OrderIsKept ==
  /\ \A c, d \in Callers : c # d => call[c].held \cap call[d].held = {}
  /\ \A c \in Callers :
       LET t == call[c]
           before(done) == done \subseteq Wanted(c)
                             /\ \A a \in done, b \in Wanted(c) \ done : a < b
       IN  /\ Wanted(c) \subseteq Edge
           /\ t.at \in {"idle", "insert"} => t.held = {}
           /\ t.at = "idle" => t.made = {}
           /\ t.at = "insert" => before(t.passed) /\ t.made \subseteq t.passed
           /\ t.at = "lock" => before(t.held)
           /\ t.at \in {"read", "append", "close"} => t.held = Wanted(c)

\* What was read as live under the locks is what is live.
ReadIsTrue ==
  \A c \in Callers : Is(c, "append") =>
    call[c].seen = {p \in LiveVersions : p[1] \in Wanted(c)}

EdgesInv == EdgesTypeOK /\ OrderIsKept /\ ReadIsTrue /\ OneLiveVersion

\* What the comments say of a call that closes an edge, and no run checks, since
\* it does not hold: the statement reads the versions before it waits for the
\* locks.  The call leaves nothing live of the edge: it "closes the live version
\* of an edge", and returns "whether anything was open to close" (close_edge); it
\* closes "the derived edges ... that are no longer claimed" (retract_derived_all).
ClosesWhatIsLive ==
  \A c \in Callers : Is(c, "close") => \A e \in Wanted(c) : {e} \X LiveOf(e) \subseteq call[c].seen

=============================================================================
