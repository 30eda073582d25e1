---------------------------- MODULE PackageLogger ----------------------------
(***************************************************************************)
(* The loggers of xlog (xlog/logmap.go, packagelogger.go): a registry of   *)
(* repositories and their packages, levels, and loggers derived with       *)
(* WithValues.  A logger's values are a slice: an array and a length.      *)
(* append writes behind the slice when the array has room, so slices of    *)
(* one array may overwrite each other.  A key/value pair counts as one     *)
(* element.  Everything but WithValues runs under the mutex of the global  *)
(* logger.                                                                 *)
(***************************************************************************)
EXTENDS Integers, Sequences, FiniteSets, SequencesExt, FiniteSetsExt, Functions

CONSTANTS
    Repos, Pkgs   \* names of repositories and packages

ASSUME NameAssumption == "*" \notin Repos \cup Pkgs

VARIABLES
    loggers,    \* every PackageLogger made
    registry,   \* logger.repoMap: <<repo, pkg>> -> number of loggers
    arrays,     \* the arrays behind the values; values are numbers, a cell nobody wrote is Nil
    sets,       \* history: the calls that set levels and register packages
    given       \* history: the values each logger was made with

loggerVars == <<loggers, registry, arrays, sets, given>>

-----------------------------------------------------------------------------
(* Levels.                                                                 *)
CRITICAL == -1
ERROR == 0
WARNING == 1
NOTICE == 2
INFO == 3
TRACE == 4
DEBUG == 5
Levels == CRITICAL..DEBUG

Char(l) == <<"C", "E", "W", "N", "I", "T", "D">>[l + 2]
String(l) == <<"CRITICAL", "ERROR", "WARNING", "NOTICE", "INFO", "TRACE", "DEBUG">>[l + 2]
Digit(l) == <<"", "0", "1", "2", "3", "4", "5">>[l + 2]

(* ParseLevel: the set of the level, empty for the error.                  *)
ParseLevel(s) == {l \in Levels : s # "" /\ s \in {String(l), Char(l), Digit(l)}}

(* ParseLogLevelConfig: settings in order, each split at "="; a later one  *)
(* replaces an earlier one.  The set of the resulting map, empty for the   *)
(* error.                                                                  *)
ParseLogLevelConfig(conf) ==
    IF \A i \in 1..Len(conf) : Len(conf[i]) = 2 /\ ParseLevel(conf[i][2]) # {}
    THEN {[k \in {conf[i][1] : i \in 1..Len(conf)} |->
             LET last == Max({i \in 1..Len(conf) : conf[i][1] = k})
             IN  CHOOSE l \in ParseLevel(conf[last][2]) : TRUE]}
    ELSE {}

-----------------------------------------------------------------------------
(* Slices.                                                                 *)
Nil == -1
NoValues == [arr |-> 0, len |-> 0]

Values(s) == IF s.arr = 0 THEN <<>> ELSE SubSeq(arrays[s.arr], 1, s.len)

(* append(s, v): whether it finds room, the arrays it leaves and the slice *)
(* it returns.  A new array doubles the old capacity (external).           *)
HasRoom(s) == s.arr # 0 /\ s.len < Len(arrays[s.arr])

Grown(s, v) ==
    LET cap == IF s.len = 0 THEN 1 ELSE 2 * s.len
    IN  Values(s) \o <<v>> \o [i \in 1..(cap - s.len - 1) |-> Nil]

AppendedArrays(s, v) ==
    IF HasRoom(s) THEN [arrays EXCEPT ![s.arr][s.len + 1] = v] ELSE Append(arrays, Grown(s, v))

AppendedSlice(s) ==
    [arr |-> IF HasRoom(s) THEN s.arr ELSE Len(arrays) + 1, len |-> s.len + 1]

-----------------------------------------------------------------------------
(* The registry.                                                           *)

NewLogger(pkg) == [pkg |-> pkg, level |-> INFO, values |-> NoValues, depth |-> 0]

(* initHijack: the package of Go's own log package.                        *)
Hijacked == <<"log", "">>

LoggerInit ==
    /\ loggers = <<NewLogger("")>>
    /\ registry = [k \in {Hijacked} |-> 1]
    /\ arrays = <<>>
    /\ sets = <<>>
    /\ given = << <<>> >>

NewPackageLogger(repo, pkg) ==
    /\ <<repo, pkg>> \notin DOMAIN registry
    /\ loggers' = Append(loggers, NewLogger(pkg))
    /\ registry' = [k \in DOMAIN registry \cup {<<repo, pkg>>} |->
                      IF k = <<repo, pkg>> THEN Len(loggers) + 1 ELSE registry[k]]
    /\ sets' = Append(sets, [repo |-> repo, pkgs |-> [p \in {pkg} |-> INFO]])
    /\ given' = Append(given, <<>>)
    /\ UNCHANGED arrays

(* setRepoLogLevelInternal and its kin: the registered loggers of          *)
(* DOMAIN lv get a level each.                                             *)
SetLevels(lv) ==
    loggers' = [i \in DOMAIN loggers |->
                  LET keys == {k \in DOMAIN lv : registry[k] = i}
                  IN  IF keys = {} THEN loggers[i]
                      ELSE [loggers[i] EXCEPT !.level = lv[CHOOSE k \in keys : TRUE]]]

(* SetGlobalLogLevel; "*" stands for every repository in the history.      *)
SetGlobalLogLevel(l) ==
    /\ SetLevels([k \in DOMAIN registry |-> l])
    /\ sets' = Append(sets, [repo |-> "*", pkgs |-> [p \in {"*"} |-> l]])
    /\ UNCHANGED <<registry, arrays, given>>

(* RepoLogger.SetLogLevel with a map of packages: "*" first, then the      *)
(* packages; unknown ones are ignored.                                     *)
LevelIn_StarLast(m, pkg, old) == IF "*" \in DOMAIN m THEN m["*"] ELSE IF pkg \in DOMAIN m THEN m[pkg] ELSE old

LevelIn(m, pkg, old) == IF pkg \in DOMAIN m THEN m[pkg] ELSE IF "*" \in DOMAIN m THEN m["*"] ELSE old

RepoKeys(repo) == {k \in DOMAIN registry : k[1] = repo}

SetLogLevel(repo, m) ==
    /\ RepoKeys(repo) # {}
    /\ SetLevels([k \in RepoKeys(repo) |-> LevelIn(m, k[2], loggers[registry[k]].level)])
    /\ sets' = Append(sets, [repo |-> repo, pkgs |-> m])
    /\ UNCHANGED <<registry, arrays, given>>

SetRepoLogLevel(repo, l) == SetLogLevel(repo, [p \in {"*"} |-> l])

SetPackageLogLevel(repo, pkg, l) ==
    SetLogLevel(repo, [p \in {IF pkg = "" THEN "*" ELSE pkg} |-> l])

(* WithValues: the derived logger copies the level and is not registered.  *)
WithValues_InPlace(i, v) ==
    /\ arrays' = AppendedArrays(loggers[i].values, v)
    /\ loggers' = Append([loggers EXCEPT ![i].values = AppendedSlice(loggers[i].values)],
                         [loggers[i] EXCEPT !.values = AppendedSlice(loggers[i].values), !.depth = @ + 1])
    /\ given' = Append(given, Append(Values(loggers[i].values), v))
    /\ UNCHANGED <<registry, sets>>

WithValues(i, v) ==
    /\ arrays' = AppendedArrays(loggers[i].values, v)
    /\ loggers' = Append(loggers, [loggers[i] EXCEPT !.values = AppendedSlice(loggers[i].values),
                                                     !.depth = @ + 1])
    /\ given' = Append(given, Append(Values(loggers[i].values), v))
    /\ UNCHANGED <<registry, sets>>

(* The methods: a level, and whether the message is joined to the values   *)
(* as text (internalLogf) or appended to them (internalLog).               *)
CriticalMethods == [level : {CRITICAL}, joined : BOOLEAN]
ErrorMethods == [level : {ERROR, WARNING}, joined : BOOLEAN]
InfoMethods == [level : {NOTICE, INFO}, joined : BOOLEAN]
DebugMethods == [level : {DEBUG, TRACE}, joined : BOOLEAN]
Methods == CriticalMethods \cup ErrorMethods \cup InfoMethods \cup DebugMethods

(* internalLog: does the record pass, what append does to the arrays, and  *)
(* the entries that are formatted.  A logger without values appends        *)
(* nothing.                                                                *)
Passes(i, l) == l = CRITICAL \/ loggers[i].level >= l

EntriesArrays(i, e) ==
    IF loggers[i].values.len = 0 THEN arrays ELSE AppendedArrays(loggers[i].values, e)
JoinedArrays(i, e) == arrays  \* internalLogf
Entries(i, e) == Append(Values(loggers[i].values), e)

-----------------------------------------------------------------------------
(* The level of a registered package is what the last call that concerns   *)
(* it says, where a name counts more than "*" in one call, and INFO since  *)
(* its registration when there was none: whatever the order of             *)
(* registrations and calls on the package, the repository and all.         *)
LevelByLastCall ==
    \A k \in DOMAIN registry \ {Hijacked} :
      LET concerns == {i \in 1..Len(sets) :
                         /\ sets[i].repo \in {k[1], "*"}
                         /\ {k[2], "*"} \cap DOMAIN sets[i].pkgs # {}}
          last == sets[Max(concerns)].pkgs
      IN  loggers[registry[k]].level = IF k[2] \in DOMAIN last THEN last[k[2]] ELSE last["*"]

(* A derived logger keeps the values it was made with, whatever is logged  *)
(* through or derived from any other logger and however their slices share *)
(* an array: a value can be overwritten only from a logger that shares the *)
(* array and ends before it, so one with which no shorter one shares keeps *)
(* them all.  (The others do lose values: from the fourth step on append   *)
(* finds room behind the slice of the logger derived from, and whoever     *)
(* logs through that one, or derives from it again, writes there.)         *)
ContextKept ==
    \A i \in 1..Len(loggers) :
      LET s == loggers[i].values
          sharing == {j \in 1..Len(loggers) : loggers[j].values.arr = s.arr}
      IN  /\ s.len = Len(given[i])
          /\ \A k \in 1..s.len :
               (\A j \in sharing : k <= loggers[j].values.len) => arrays[s.arr][k] = given[i][k]
=============================================================================
