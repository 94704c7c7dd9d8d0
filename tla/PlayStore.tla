------------------------------- MODULE PlayStore -------------------------------
(***************************************************************************)
(* createStore in play-store.mjs: the append-only files of finished games  *)
(* and of users, the index in memory that every request reads, and         *)
(* restarts of the server that rebuild it.                                 *)
(*                                                                         *)
(* An appendFileSync may fail, and where TornWrites it may leave the       *)
(* beginning of its line behind.  A crash in the middle of a request is a  *)
(* failure followed by Restart.                                            *)
(***************************************************************************)
EXTENDS Naturals, Sequences, FiniteSets, SequencesExt

CONSTANTS
  Guests,     \* users who sign in once by a name and hold a token from then on
  Accounts,   \* users of a configured Google sign-in, who hold a token too
  Logins,     \* users the tailnet names on every request
  Names,
  Games,      \* the games they finish
  Results,    \* the results a page reports
  TornWrites, \* whether a failed append may leave part of its line
  MaxRows,    \* bound on the rows of games
  MaxLines    \* bound on the lines of the users' file

ASSUME TornAssumption == TornWrites \in BOOLEAN
ASSUME UsersAssumption ==
  Guests \intersect Accounts = {} /\ Guests \intersect Logins = {} /\ Accounts \intersect Logins = {}
ASSUME ResultsAssumption == Results \subseteq {"win", "loss", "draw", "forfeit"}
ASSUME RowsAssumption == MaxRows \in Nat /\ MaxLines \in Nat

VARIABLES
  users,     \* the Map in memory: id -> name
  rows,      \* games, in memory
  usersFile,
  gamesFile,
  welcomed,  \* history: the users who were given a token, and under which name
  recorded   \* history: the rows /api/result has answered with

storeVars == <<users, rows, usersFile, gamesFile, welcomed, recorded>>

\* A file is its parseable lines and what follows the last newline: nothing, a
\* fragment, or a whole record that lacks only the newline.
Ended == [is |-> "ended"]
Fragment == [is |-> "fragment"]
Whole(rec) == [is |-> "whole", rec |-> rec]
Empty == [lines |-> <<>>, rest |-> Ended]

StoreInit ==
  /\ users = [u \in {} |-> u] /\ rows = <<>>
  /\ usersFile = Empty /\ gamesFile = Empty
  /\ welcomed = {} /\ recorded = {}

-----------------------------------------------------------------------------
(* The files.                                                              *)

\* A line appended to an unterminated one makes a single line that does not parse.
Appended(file, rec) ==
  IF file.rest = Ended
  THEN [lines |-> Append(file.lines, rec), rest |-> Ended]
  ELSE [lines |-> file.lines, rest |-> Ended]

AppendFailed(file, rec) ==
  {file} \union
  {[lines |-> file.lines, rest |-> rest] :
     rest \in IF ~TornWrites THEN {}
              ELSE IF file.rest = Ended THEN {Fragment, Whole(rec)} ELSE {Fragment}}

\* Lines that do not parse are dropped.
readLines(file) == IF file.rest.is = "whole" THEN Append(file.lines, file.rest.rec) ELSE file.lines

-----------------------------------------------------------------------------
(* Requests.                                                               *)

Known == DOMAIN users
User(u, name) == [id |-> u, name |-> name]

\* upsert: the Map first, then the file.
InMemory(u, name) == users' = [v \in Known \union {u} |-> IF v = u THEN name ELSE users[v]]
Upserted(u, name) == usersFile' = Appended(usersFile, User(u, name))
UpsertFailed(u, name) == usersFile' \in AppendFailed(usersFile, User(u, name))

nameTaken(name) == name \in {users[u] : u \in Known}

\* The token leaves with the answer, after the append.
SignIn(u, name) ==
  /\ Len(usersFile.lines) < MaxLines
  /\ InMemory(u, name)
  /\ \/ Upserted(u, name) /\ welcomed' = welcomed \union {User(u, name)}
     \/ UpsertFailed(u, name) /\ UNCHANGED welcomed
  /\ UNCHANGED <<rows, gamesFile, recorded>>

\* Every guest sign-in is a new id, and its name is first come.
signInGuest(u, name) ==
  /\ u \notin Known /\ ~\E v \in welcomed : v.id = u
  /\ ~nameTaken(name)
  /\ SignIn(u, name)

\* A verified account keeps the name that its provider gives it, whoever else has it.
signInGoogle(u, name) == SignIn(u, name)

\* identify: a login not in memory, or one whose display name has changed, is upserted;
\* any other leaves the files alone.
identify(u, name) ==
  /\ Len(usersFile.lines) < MaxLines
  /\ u \in Known => users[u] # name
  /\ InMemory(u, name)
  /\ Upserted(u, name) \/ UpsertFailed(u, name)
  /\ UNCHANGED <<rows, gamesFile, welcomed, recorded>>

\* verifyToken and the tailnet: a token names a user only while that user is in memory.
Callers == {u \in Known : u \in Logins \/ \E v \in welcomed : v.id = u}

Row(u, g, result) == [user |-> u, name |-> users[u], game |-> g, result |-> result]

RecordGameForgivingly(u, g, result) ==
  /\ u \in Callers
  /\ g \notin {row.game : row \in recorded} /\ Len(rows) < MaxRows
  /\ rows' = Append(rows, Row(u, g, result))
  /\ \/ /\ gamesFile' = Appended(gamesFile, Row(u, g, result))
        /\ Upserted(u, users[u])
     \/ /\ gamesFile' \in AppendFailed(gamesFile, Row(u, g, result))
        /\ UNCHANGED usersFile
  /\ recorded' = recorded \union {Row(u, g, result)}
  /\ UNCHANGED <<users, welcomed>>

\* recordGame: the row goes to memory, then to its file, then the user is upserted;
\* only a request that gets through all of it is answered with the row, and a game
\* that was not may be reported again.
recordGame(u, g, result) ==
  /\ u \in Callers
  /\ g \notin {row.game : row \in recorded} /\ Len(rows) < MaxRows
  /\ LET row == Row(u, g, result)
     IN /\ rows' = Append(rows, row)
        /\ \/ /\ gamesFile' = Appended(gamesFile, row)
              /\ Upserted(u, users[u])
              /\ recorded' = recorded \union {row}
           \/ /\ gamesFile' = Appended(gamesFile, row)
              /\ UpsertFailed(u, users[u])
              /\ UNCHANGED recorded
           \/ /\ gamesFile' \in AppendFailed(gamesFile, row)
              /\ UNCHANGED <<usersFile, recorded>>
  /\ UNCHANGED <<users, welcomed>>

\* createStore of the next process; of a user the last line counts.
Restart ==
  /\ LET lines == readLines(usersFile)
     IN users' = [u \in {lines[i].id : i \in DOMAIN lines} |->
                   lines[SelectLastInSeq(lines, LAMBDA l : l.id = u)].name]
  /\ rows' = readLines(gamesFile)
  /\ UNCHANGED <<usersFile, gamesFile, welcomed, recorded>>

StoreNext ==
  \/ \E name \in Names :
       \/ \E u \in Guests : signInGuest(u, name)
       \/ \E u \in Accounts : signInGoogle(u, name)
       \/ \E u \in Logins : identify(u, name)
  \/ \E u \in Known, g \in Games, result \in Results : recordGame(u, g, result)
  \/ Restart

StoreSpec == StoreInit /\ [][StoreNext]_storeVars

-----------------------------------------------------------------------------
(* The standings.                                                          *)

RowsOf(u) == {i \in DOMAIN rows : rows[i].user = u}
Count(u, results) == Cardinality({i \in RowsOf(u) : rows[i].result \in results})

\* A forfeit is a loss, and the last name used is the one shown.
leaderboard ==
  [u \in {rows[i].user : i \in DOMAIN rows} |->
     [name |-> rows[Max(RowsOf(u))].name, games |-> Cardinality(RowsOf(u)),
      w |-> Count(u, {"win"}), l |-> Count(u, {"loss", "forfeit"}), d |-> Count(u, {"draw"})]]

-----------------------------------------------------------------------------
(* Properties.                                                             *)

\* What a request was told is kept stays kept, whatever fails and however often the
\* server restarts: every result answered with 200 is on its file and counts in its
\* player's row of the standings, every token still has its user, and no two guests have
\* one name between them (the comments of play-store.mjs: a truncated final line can only
\* ever lose the last record, tokens issued before a restart keep working, and a guest
\* name is first-come).
AcknowledgedIsKept ==
  /\ recorded \subseteq Range(readLines(gamesFile))
  /\ \A row \in recorded :
       /\ row.user \in DOMAIN leaderboard
       /\ LET own == {r \in recorded : r.user = row.user}
              player == leaderboard[row.user]
          IN /\ player.w >= Cardinality({r \in own : r.result = "win"})
             /\ player.l + player.d >= Cardinality({r \in own : r.result # "win"})
             /\ player.games = player.w + player.l + player.d
  /\ \A v \in welcomed : v.id \in Known /\ v \in Range(readLines(usersFile))
  /\ \A u, v \in Known \intersect Guests : users[u] = users[v] => u = v
=============================================================================
