------------------------------ MODULE Settings ------------------------------
(***************************************************************************)
(* What main of src/src/cliap2.c takes from the command line, and          *)
(* conffile_load of src/src/conffile.c from the file, until the values are *)
(* in force: which argument wins, which one is refused, and which ends the *)
(* program.  Numbers are scaled, file names stand for what is in the file. *)
(***************************************************************************)
EXTENDS Numbers, Sequences

CONSTANTS
    CommandLines,   \* sequences of options, [opt |-> name, arg |-> text]
    Contents,       \* of configuration files: [loglevel, start], or NoFile or BadFile
    NoFile, BadFile,\* a file that cannot be opened, and one that cannot be parsed
    None,           \* NULL, or a value that is not in the file
    DacMs,          \* 250 in the code
    StartBufferMs   \* default of general.start_buffer_ms: 2250 in the code

ASSUME MillisAssumption == DacMs \in Nat \ {0} /\ StartBufferMs \in Nat
ASSUME CommandLinesAssumption == \A l \in CommandLines : Len(l) \in Nat

VARIABLES
    line,       \* the command line
    next,       \* index of the option getopt_long returns next
    given,      \* the values of main and ap2_device_info
    conf,       \* cfg: the level of the log, the start buffer and the password
    status      \* "parsing", "loading", "logging", "ready", or "success" or "failure" of main
settingsVars == <<line, next, given, conf, status>>

Mandatory == {"name", "hostname", "address", "txt", "command_pipe"}
Strings == Mandatory \cup {"config", "logfile", "auth", "password"}
Printing == {"ntp", "version", "testrun"}
\* Of these a text without a number is reported and ignored, of those it is fatal.
Lenient == {"loglevel", "port"}
Strict == {"ntpstart", "volume", "dacp_id", "latency", "pairing_latency", "input_write_ms"}

Defaults == [o \in Strings \cup Lenient \cup Strict |->
    CASE o \in Strings -> None
      [] o \in Lenient -> -1
      [] o = "pairing_latency" -> 2500
      [] o = "input_write_ms" -> 15
      [] OTHER -> 0]

SettingsInit ==
    /\ line \in CommandLines /\ next = 1
    /\ given = Defaults
    /\ conf = [loglevel |-> None, start |-> None, password |-> None]
    /\ status = "parsing"

-----------------------------------------------------------------------------

Converted(opt, text) ==
    CASE opt \in {"loglevel", "port", "volume"} -> safe_atoi32(text)
      [] opt \in {"ntpstart", "latency", "pairing_latency"} -> safe_atou64(text)
      [] opt = "dacp_id" -> safe_hextou64(text)
      [] opt = "input_write_ms" -> safe_atoi64(text)

\* The latency is made to include that of the DAC.
Stored(opt, value) == IF opt = "latency" THEN (value + DacMs) % LongRange ELSE value

\* An option with a value
Take(o) ==
    IF o.opt \in Strings
      THEN given' = [given EXCEPT ![o.opt] = o.arg] /\ UNCHANGED status
      ELSE LET value == Converted(o.opt, o.arg) IN
           IF value # NoNumber
             THEN given' = [given EXCEPT ![o.opt] = Stored(o.opt, value)] /\ UNCHANGED status
             ELSE status' = (IF o.opt \in Strict THEN "failure" ELSE status) /\ UNCHANGED given

\* getopt_long returns an option; --pipe is obsolete, and one that is not known is refused.
GetOption ==
    /\ status = "parsing" /\ next <= Len(line)
    /\ next' = next + 1
    /\ LET o == line[next] IN
       \/ o.opt \in DOMAIN Defaults /\ Take(o)
       \/ o.opt = "pipe" /\ UNCHANGED <<given, status>>
       \/ o.opt \in Printing /\ status' = "success" /\ UNCHANGED given
       \/ o.opt \notin DOMAIN Defaults \cup Printing \cup {"pipe"}
          /\ status' = "failure" /\ UNCHANGED given
    /\ UNCHANGED <<line, conf>>

\* Mutant of CheckMandatory: the port may be missing.
CheckMandatory_NoPort ==
    /\ status = "parsing" /\ next > Len(line)
    /\ status' = IF \E o \in Mandatory : given[o] = None THEN "failure" ELSE "loading"
    /\ UNCHANGED <<line, next, given, conf>>

CheckMandatory ==
    /\ status = "parsing" /\ next > Len(line)
    /\ status' = IF given["port"] = -1 \/ \E o \in Mandatory : given[o] = None
                   THEN "failure" ELSE "loading"
    /\ UNCHANGED <<line, next, given, conf>>

-----------------------------------------------------------------------------
\* conffile_load

Levels == [fatal |-> 0, log |-> 1, warning |-> 2, info |-> 3, debug |-> 4, spam |-> 5]

cb_loglevel(value) == IF value \in DOMAIN Levels THEN Levels[value] ELSE 1

\* cfg_parse, or the defaults of the table where the file says nothing
FromFile(file) ==
    [loglevel |-> IF file = None \/ file.loglevel = None THEN Levels.log
                  ELSE cb_loglevel(file.loglevel),
     start |-> IF file = None \/ file.start = None THEN StartBufferMs ELSE file.start]

\* Mutant of StartBuffer: the file wins over the argument.
StartBuffer_File(file) ==
    IF given["latency"] # 0 /\ given["latency"] <= LongMax /\ (file = None \/ file.start = None)
      THEN given["latency"] ELSE FromFile(file).start

\* --latency is set by parsing a piece of configuration, whose failure is ignored: it is
\* the case of a value that is no long.
StartBuffer(file) ==
    IF given["latency"] # 0 /\ given["latency"] <= LongMax
      THEN given["latency"] ELSE FromFile(file).start

\* A quote ends the string in the piece of configuration that sets the password.
Quoted == "a\"b"

Load ==
    /\ status = "loading"
    /\ LET file == given["config"] IN
       IF file \in {NoFile, BadFile}
          \/ (given["password"] # None /\ Quoted \in {given["name"], given["password"]})
         THEN status' = "failure" /\ UNCHANGED conf
         ELSE /\ conf' = [loglevel |-> FromFile(file).loglevel, start |-> StartBuffer(file),
                          password |-> given["password"]]
              /\ status' = "logging"
    /\ UNCHANGED <<line, next, given>>

\* A level on the command line wins unless it is negative.
SetLogLevel ==
    /\ status = "logging"
    /\ given' = [given EXCEPT !["loglevel"] = IF @ < 0 THEN conf.loglevel ELSE @]
    /\ status' = "ready"
    /\ UNCHANGED <<line, next, conf>>

SettingsNext == GetOption \/ CheckMandatory \/ Load \/ SetLogLevel
SettingsSpec == SettingsInit /\ [][SettingsNext]_settingsVars

-----------------------------------------------------------------------------

\* Options that end the program where they stand
Ends(o) ==
    \/ o.opt \in Printing \/ o.opt \notin DOMAIN Defaults \cup {"pipe"}
    \/ o.opt \in Strict /\ Converted(o.opt, o.arg) = NoNumber

FirstEnd == {i \in 1..Len(line) : Ends(line[i]) /\ \A j \in 1..i - 1 : ~Ends(line[j])}

\* Where an option is given a text that can be used, and the last of these places
Usable(opt) ==
    {i \in 1..Len(line) : line[i].opt = opt /\
                          (opt \in Strings \/ Converted(opt, line[i].arg) # NoNumber)}
LastUse(opt) == {i \in Usable(opt) : \A j \in Usable(opt) : j <= i}

\* main succeeds without playing only if the first option that ends it is one that prints
\* something, and it goes on to play only with all it must be given, in any order of the
\* options and however often they come.
ExitAsAsked ==
    /\ status = "success" => \E i \in FirstEnd : line[i].opt \in Printing
    /\ status \in {"logging", "ready"} =>
          /\ FirstEnd = {}
          /\ \A o \in Mandatory \cup {"port"} : Usable(o) # {}

\* The last usable value of each option is in force; the level and the start buffer of
\* the command line win over those of the file, and these over the defaults.  It holds of
\* a latency that is a count of milliseconds and, with that of the DAC, a long, and of
\* 32-bit values not below their range, where safe_atoi32 wraps.
LastValueWins ==
    status = "ready" =>
        /\ \A o \in Strings \cup {"input_write_ms"} :
              \A i \in LastUse(o) : given[o] = line[i].arg
        /\ \A o \in {"port", "volume"} : \A i \in LastUse(o) :
              line[i].arg >= -IntMax - 1 => given[o] = line[i].arg
        /\ Usable("loglevel") = {} =>
              given["loglevel"] = FromFile(given["config"]).loglevel
        /\ \A i \in LastUse("loglevel") : line[i].arg >= -IntMax - 1 =>
              given["loglevel"] = IF line[i].arg >= 0 THEN line[i].arg
                                  ELSE FromFile(given["config"]).loglevel
        /\ Usable("latency") = {} => conf.start = FromFile(given["config"]).start
        /\ \A i \in LastUse("latency") : line[i].arg \in 0..LongMax - DacMs =>
              conf.start = line[i].arg + DacMs
        /\ \A i \in LastUse("password") : conf.password = line[i].arg

\* What makes them inductive: of what was looked at so far, the last use is in force.
Value(opt, text) == IF opt \in Strings THEN text ELSE Stored(opt, Converted(opt, text))

Wins(opt) ==
    /\ (\A i \in Usable(opt) : i >= next) => given[opt] = Defaults[opt]
    /\ \A i \in Usable(opt) :
          i < next /\ (\A j \in Usable(opt) : j < next => j <= i) =>
              given[opt] = Value(opt, line[i].arg)

SettingsInv ==
    /\ Len(line) \in Nat /\ next \in 1..Len(line) + 1
    /\ given = [o \in DOMAIN Defaults |-> given[o]]
    /\ status \in {"parsing", "loading", "logging", "ready", "success", "failure"}
    /\ status = "success" => \E i \in FirstEnd : line[i].opt \in Printing
    /\ status \in {"parsing", "loading", "logging", "ready"} =>
          /\ \A i \in 1..next - 1 : ~Ends(line[i])
          /\ \A o \in DOMAIN Defaults \ {"loglevel"} : Wins(o)
    /\ status \in {"parsing", "loading", "logging"} => Wins("loglevel")
    /\ status \in {"loading", "logging", "ready"} =>
          next = Len(line) + 1 /\ \A o \in Mandatory \cup {"port"} : Usable(o) # {}
    /\ status \in {"logging", "ready"} =>
          /\ conf.loglevel = FromFile(given["config"]).loglevel
          /\ conf.start = StartBuffer(given["config"])
          /\ conf.password = given["password"]
    /\ status = "ready" =>
          /\ Usable("loglevel") = {} => given["loglevel"] = conf.loglevel
          /\ \A i \in LastUse("loglevel") :
                LET level == Value("loglevel", line[i].arg)
                IN  given["loglevel"] = IF level < 0 THEN conf.loglevel ELSE level
=============================================================================
