--------------------------------- MODULE Config ---------------------------------
(***************************************************************************)
(* Configuration: config.Load and applyEnvOverrides                        *)
(* (internal/config/config.go), the flags of main, and the times the poll  *)
(* loop derives (internal/server/server.go).  The settings are those that  *)
(* the sources treat differently: the poll interval, the port, a switch    *)
(* (docker.enabled) and a text (intel_gpu.sysfs_path).  The last one       *)
(* stands for the other texts and lists, the switch for intel_gpu.enabled. *)
(* Times are in ms; an interval is small enough for a time.Duration.       *)
(***************************************************************************)
EXTENDS Integers

CONSTANTS
    Intervals,      \* bound: the poll intervals that may be asked for
    Ports,          \* bound: the ports that may be asked for
    Paths,          \* bound: the paths that may be asked for
    Bad             \* a value that does not parse

\* stated as an assumption where the constants get their values
ConfigAssumption == Intervals \subseteq Int /\ Ports \subseteq Int

VARIABLES
    pc,             \* "load", "env", "flags", "run"
    file,           \* "absent", "unreadable", "malformed" or "good"
    yaml,           \* the settings the file has
    env,            \* what the variables hold, those set and not empty
    portFlag,       \* 0: not given
    cfg

vars == <<pc, file, yaml, env, portFlag, cfg>>

Settings == {"poll", "port", "docker", "sysfs"}

DefaultConfig == [poll |-> 1500, port |-> 8080, docker |-> TRUE, sysfs |-> "card0"]

\* what a source says: nothing or one value; the file says only what has the
\* setting's type, a variable may hold anything
Maybe(S) == {{}} \cup {{x} : x \in S}
Files == [poll : Maybe(Intervals), port : Maybe(Ports), docker : Maybe(BOOLEAN), sysfs : Maybe(Paths)]
Environments == [poll   : Maybe(Intervals \cup {Bad}),
                 port   : Maybe(Ports \cup {Bad}),
                 docker : Maybe(BOOLEAN \cup {Bad}),
                 sysfs  : Maybe(Paths)]
Silent == [s \in Settings |-> {}]

\* the value given, or the one there was
Override(given, old) == IF given = {} THEN old ELSE CHOOSE x \in given : TRUE

Init == /\ file \in {"absent", "unreadable", "malformed", "good"}
        /\ yaml \in Files /\ (file # "good" => yaml = Silent)
        /\ env \in Environments
        /\ portFlag \in {0} \cup {p \in Ports : p > 0}
        /\ cfg = DefaultConfig
        /\ pc = "load"
--------------------------------------------------------------------------------
(* Load: a file that is not there is no error; one that cannot be read or  *)
(* parsed makes Load return before the environment is applied, and main    *)
(* goes on with the defaults.                                              *)

ReadFile == /\ pc = "load" /\ file \in {"absent", "good"}
            /\ cfg' = [s \in Settings |-> Override(yaml[s], cfg[s])]
            /\ pc' = "env"
            /\ UNCHANGED <<file, yaml, env, portFlag>>

LoadFails == /\ pc = "load" /\ file \in {"unreadable", "malformed"}
             /\ cfg' = DefaultConfig
             /\ pc' = "flags"
             /\ UNCHANGED <<file, yaml, env, portFlag>>

\* mutant: a number is taken over unchecked
Accepts_AnyNumber(s, x) == x # Bad

\* a value that an override accepts: numbers that parse and reach their limit,
\* booleans that parse, every text
Accepts(s, x) == /\ x # Bad
                 /\ s = "port" => x > 0
                 /\ s = "poll" => x >= 500

ApplyEnvOverrides ==
    /\ pc = "env"
    /\ cfg' = [s \in Settings |->
                Override({x \in env[s] : Accepts(s, x)}, cfg[s])]
    /\ pc' = "flags"
    /\ UNCHANGED <<file, yaml, env, portFlag>>

ApplyFlags == /\ pc = "flags"
              /\ cfg' = IF portFlag > 0 THEN [cfg EXCEPT !.port = portFlag] ELSE cfg
              /\ pc' = "run"
              /\ UNCHANGED <<file, yaml, env, portFlag>>

--------------------------------------------------------------------------------
(* The times the poll loop works with.                                     *)

\* mutant: only zero falls back
PollDuration_Negative == IF cfg.poll = 0 THEN 1500 ELSE cfg.poll

\* the period of the ticker
PollDuration == IF cfg.poll <= 0 THEN 1500 ELSE cfg.poll

\* the time CollectAll is given
Timeout == IF PollDuration - 200 <= 0 THEN 1000 ELSE PollDuration - 200
--------------------------------------------------------------------------------
Next == ReadFile \/ LoadFails \/ ApplyEnvOverrides \/ ApplyFlags

Spec == Init /\ [][Next]_vars
--------------------------------------------------------------------------------
Running == pc = "run"
FileTaken == file \in {"absent", "good"}

\* a value of the setting's kind, and a port and an interval that the code accepts as such
Usable(s, x) == x # Bad /\ (s = "port" => x >= 1) /\ (s = "poll" => x > 499)

\* The usable value of the environment, else what the file says, which nothing checks,
\* else the default; only the default where the file cannot be read or parsed.
Wanted(s) ==
    LET sources == <<{x \in env[s] : FileTaken /\ Usable(s, x)}, yaml[s], {DefaultConfig[s]}>>
        first == CHOOSE i \in 1..3 : sources[i] # {} /\ \A j \in 1..(i - 1) : sources[j] = {}
    IN  CHOOSE x \in sources[first] : TRUE

\* Every setting that the program runs with is the flag's, else that of a usable variable,
\* else the file's as it stands, usable or not, else the default; and where the file cannot
\* be taken the flag's or the default, whatever the variables hold (config.Load, main).
HigherSourceWins ==
    Running =>
        /\ cfg.port = IF portFlag > 0 THEN portFlag ELSE Wanted("port")
        /\ \A s \in Settings \ {"port"} : cfg[s] = Wanted(s)

\* time.NewTicker panics unless its period is positive, and a collection whose
\* deadline has passed at its start collects nothing: whatever file,
\* environment and flags say (startPolling, pollAndBroadcast), both are positive.
TickerCanStart == Running => PollDuration > 0 /\ Timeout > 0

\* The deadline of a collection comes before the next tick, unless the interval
\* is one the file alone can set (200 ms or less): the environment and the
\* defaults never bring the poll loop to drop ticks (server.go:100-103).
DeadlineInsideInterval ==
    Running /\ Timeout >= PollDuration => yaml.poll = {cfg.poll}

\* The poll loop can work with its times.
PollTimesFit == TickerCanStart /\ DeadlineInsideInterval
=============================================================================
