------------------------------- MODULE GameData -------------------------------
(***************************************************************************)
(* The MH3G database and its manifest: mhedctl import-game-data replaces   *)
(* both files in the runtime directory, the server reads both when it      *)
(* starts, and its pool opens the database again for every connection.     *)
(*                                                                         *)
(* A version stands for the content of a database together with the        *)
(* manifest that has its hash.  Renaming replaces a file as a whole and    *)
(* leaves the old one to those who have it open; writing the manifest      *)
(* empties it first.  The source directory, which another repository       *)
(* fills, is assumed to change as a whole.                                 *)
(***************************************************************************)
EXTENDS Naturals

CONSTANTS
  Import,      \* slots for runs of mhedctl import-game-data
  Connection,  \* connections of the adapter's pool
  MaxVersion,  \* bound: versions the source directory ever has
  NoData,      \* no file, or no connection
  Torn         \* a file that is written only in part

Version == 1..MaxVersion

ASSUME GameDataAssumption ==
  MaxVersion \in Nat \ {0} /\ NoData # Torn /\ {NoData, Torn} \cap Version = {}

VARIABLES
  source,    \* version in the source directory
  database,  \* what mh3g.sqlite in the runtime directory holds
  manifest,  \* what manifest.json there describes
  import,    \* per slot: a run of import-game-data
  server,    \* the server process: how far mh3g.Open got, and dataVersion
  pool,      \* per connection: what the file it has open holds
  spoiled,   \* history: why the two files need not match, see Finish and Stop
  replaced   \* history: the database was renamed since the server hashed it

gameVars == <<source, database, manifest, import, server, pool, spoiled, replaced>>
files == <<database, manifest>>
process == <<server, pool, replaced>>

\* version: of the manifest that was read and verified; copy: what the temporary
\* file holds; beside: another import ran at the same time.
Run == [step : {"idle", "verified", "copied", "renamed", "truncated"},
        version : Version, copy : Version, beside : BOOLEAN]
NoRun == [step |-> "idle", version |-> 1, copy |-> 1, beside |-> FALSE]

Process == [step : {"down", "manifest", "hashed", "serving", "unavailable"}, version : Version]

GameTypeOK ==
  /\ source \in Version
  /\ database \in Version \cup {NoData, Torn} /\ manifest \in Version \cup {NoData, Torn}
  /\ import \in [Import -> Run]
  /\ server \in Process
  /\ pool \in [Connection -> Version \cup {NoData, Torn}]
  /\ spoiled \in BOOLEAN /\ replaced \in BOOLEAN

GameInit ==
  /\ source = 1
  /\ database = NoData /\ manifest = NoData
  /\ import = [i \in Import |-> NoRun]
  /\ server = [step |-> "down", version |-> 1]
  /\ pool = [c \in Connection |-> NoData]
  /\ spoiled = FALSE /\ replaced = FALSE

-----------------------------------------------------------------------------
(* copyVerifiedGameData.                                                   *)

\* External: the source directory gets other data.
UpdateSource ==
  /\ source < MaxVersion
  /\ source' = source + 1
  /\ UNCHANGED <<files, import, process, spoiled>>

Running(i) == import[i].step # "idle"

\* The manifest is read and the database hashed; a pair that does not match
\* ends the command before it has touched anything.
VerifySource(i) ==
  /\ ~Running(i)
  /\ import' = [j \in Import |->
       IF j = i THEN [NoRun EXCEPT !.step = "verified", !.version = source,
                                   !.beside = \E k \in Import : Running(k)]
       ELSE [import[j] EXCEPT !.beside = @ \/ Running(j)]]
  /\ UNCHANGED <<source, files, process, spoiled>>

\* Wrong: the database is written where the server reads it.
CopyInPlace(i) ==
  /\ import[i].step = "verified"
  /\ database' = Torn
  /\ import' = [import EXCEPT ![i].step = "copied", ![i].copy = import[i].version]
  /\ UNCHANGED <<source, manifest, process, spoiled>>

\* The database is read again, into a temporary file: it may be a new one.
CopySource(i) ==
  /\ import[i].step = "verified"
  /\ \E v \in {import[i].version, source} :
       import' = [import EXCEPT ![i].step = "copied", ![i].copy = v]
  /\ UNCHANGED <<source, files, process, spoiled>>

\* Wrong: the error of the rename is dropped.
RenameUnchecked(i) ==
  /\ import[i].step = "copied"
  /\ database' \in {database, import[i].copy}
  /\ import' = [import EXCEPT ![i].step = "renamed"]
  /\ replaced' = TRUE
  /\ UNCHANGED <<source, manifest, server, pool, spoiled>>

RenameDatabase(i) ==
  /\ import[i].step = "copied"
  /\ database' = import[i].copy
  /\ import' = [import EXCEPT ![i].step = "renamed"]
  /\ replaced' = TRUE
  /\ UNCHANGED <<source, manifest, server, pool, spoiled>>

\* os.WriteFile opens the manifest with O_TRUNC ...
TruncateManifest(i) ==
  /\ import[i].step = "renamed"
  /\ manifest' = Torn
  /\ import' = [import EXCEPT ![i].step = "truncated"]
  /\ UNCHANGED <<source, database, process, spoiled>>

\* ... and writes it.  What another import wrote since may stick out behind it.
Finish(i) ==
  /\ import[i].step = "truncated"
  /\ manifest' \in {import[i].version} \cup (IF manifest = Torn THEN {} ELSE {Torn})
  /\ import' = [import EXCEPT ![i] = NoRun]
  /\ spoiled' = (import[i].beside \/ import[i].copy # import[i].version)
  /\ UNCHANGED <<source, database, process>>

\* An error or a crash.  The deferred os.Remove leaves nothing of the temporary
\* file; what was renamed or truncated stays.
Stop(i) ==
  /\ Running(i)
  /\ import' = [import EXCEPT ![i] = NoRun]
  /\ spoiled' = (spoiled \/ import[i].step \in {"renamed", "truncated"})
  /\ UNCHANGED <<source, files, process>>

-----------------------------------------------------------------------------
(* mh3g.Open and the pool.                                                 *)

Reach(step) == server' = [server EXCEPT !.step = step]

\* The manifest is read, unless there is none that can be parsed.
ReadManifest ==
  /\ server.step = "down" /\ manifest \in Version
  /\ server' = [step |-> "manifest", version |-> manifest]
  /\ UNCHANGED <<source, files, import, pool, spoiled, replaced>>

\* Wrong: a database that the manifest does not describe is opened all the same.
HashAnyDatabase ==
  /\ server.step = "manifest" /\ database # NoData
  /\ Reach("hashed")
  /\ replaced' = FALSE
  /\ UNCHANGED <<source, files, import, pool, spoiled>>

\* The database has the hash of the manifest; the file is closed again.
HashDatabase ==
  /\ server.step = "manifest" /\ database = server.version
  /\ Reach("hashed")
  /\ replaced' = FALSE
  /\ UNCHANGED <<source, files, import, pool, spoiled>>

\* sql.Open opens nothing; Ping opens the file, by its name, for one connection.
PingPool(c) ==
  /\ server.step = "hashed"
  /\ Reach("serving")
  /\ pool' = [pool EXCEPT ![c] = database]
  /\ UNCHANGED <<source, files, import, spoiled, replaced>>

\* Any step of Open fails: main logs it and serves without game data.
OpenFails ==
  /\ server.step \in {"down", "manifest", "hashed"}
  /\ Reach("unavailable")
  /\ UNCHANGED <<source, files, import, pool, spoiled, replaced>>

\* A request finds no idle connection: database/sql opens the file again ...
OpenConnection(c) ==
  /\ server.step = "serving" /\ pool[c] = NoData
  /\ pool' = [pool EXCEPT ![c] = database]
  /\ UNCHANGED <<source, files, import, server, spoiled, replaced>>

\* ... and closes connections that are idle beyond its limit, or broken.
CloseConnection(c) ==
  /\ server.step = "serving" /\ pool[c] # NoData
  /\ pool' = [pool EXCEPT ![c] = NoData]
  /\ UNCHANGED <<source, files, import, server, spoiled, replaced>>

\* The process ends; only a new one calls Open again.
Restart ==
  /\ server.step # "down"
  /\ Reach("down")
  /\ pool' = [c \in Connection |-> NoData]
  /\ UNCHANGED <<source, files, import, spoiled, replaced>>

GameNext ==
  \/ UpdateSource
  \/ \E i \in Import : \/ VerifySource(i) \/ CopySource(i) \/ RenameDatabase(i)
                       \/ TruncateManifest(i) \/ Finish(i) \/ Stop(i)
  \/ ReadManifest \/ HashDatabase \/ OpenFails \/ Restart
  \/ \E c \in Connection : PingPool(c) \/ OpenConnection(c) \/ CloseConnection(c)

GameSpec == GameInit /\ [][GameNext]_gameVars

-----------------------------------------------------------------------------
(* Properties.                                                             *)

\* No connection of the server, whenever it is opened, ever reads a database
\* of which an import has written a part only.  Which version it reads, and whether
\* that is the one that was hashed, is left to the properties below.
ConnectionsReadWhole == \A c \in Connection : pool[c] # Torn

\* When no import runs, database and manifest match, so that a server can start,
\* unless the last import to finish ran beside another one or copied a source
\* that had changed, or one was cut short after its rename and none has finished
\* alone since.
FilesMatchAtRest ==
  (\A i \in Import : ~Running(i)) /\ ~spoiled => database = manifest

\* A connection reads another database than the one whose hash the server calls
\* its data version only if an import renamed one into place since it was hashed.
StrayOnlyAfterImport ==
  \A c \in Connection : pool[c] \notin {NoData, server.version} => replaced

\* "a corrected database never gives an old data_version a new meaning": all
\* that is answered for a data version is read from the database with that hash.
ConnectionsReadTheirVersion == \A c \in Connection : pool[c] \in {NoData, server.version}
=============================================================================
