---------------------------- MODULE Capabilities ----------------------------
(***************************************************************************)
(* platform/windows/capabilities.py: what the machine offers for diagnosis *)
(* is probed one capability after the other, and the snapshot answers for  *)
(* cache_ttl by the clock of the machine, which may be set back.  What is  *)
(* probed is external and may differ from one probe to the next.           *)
(***************************************************************************)
EXTENDS Naturals

CONSTANTS
  Probed,     \* the capabilities, of the kinds below
  CacheTtl,   \* cache_ttl
  MaxNow,     \* bound on the time
  MaxSetBack, \* bound on how far the clock is set back
  NotCached   \* no snapshot

ASSUME CapabilitiesAssumption ==
  /\ Probed \subseteq {"dll", "event_channel", "wer", "tool", "standard_user"}
  /\ CacheTtl \in Nat \ {0} /\ MaxNow \in Nat /\ MaxSetBack \in Nat

VARIABLES
  clock,        \* what utc_now() says
  cached,       \* _cached
  detecting,    \* the snapshot under way, NotCached between calls of detect()
  \* history, read by properties only
  uptime,       \* the time that has passed
  set_back,     \* by how much the clock was set back in all
  last_answer   \* the age of the last answer from the cache, and how far the
                \* clock was set back meanwhile

capabilityVars == <<clock, cached, detecting, uptime, set_back, last_answer>>

CapabilityState == {"available", "unavailable", "denied", "unsupported", "error"}

\* A resource is there, is not, may not be read, refuses the call with a
\* PermissionError, or makes it raise something else.
Resource == {"there", "absent", "unreadable", "refused", "broken"}

\* LoadLibrary reports whatever is wrong as an OSError.
ProbeDll(r) ==
  CASE r = "there" -> "available" [] r = "broken" -> "error" [] OTHER -> "unavailable"

\* A file, or an archive that may be in either of two places.
ProbeFile(r) ==
  CASE r = "there"                       -> "available"
    [] r = "absent"                      -> "unavailable"
    [] r \in {"unreadable", "refused"}   -> "denied"
    [] OTHER                             -> "error"

\* which() takes a tool that may not be executed for one that is absent.
ProbeTool(r) ==
  CASE r = "there" -> "available" [] r \in {"absent", "unreadable"} -> "unavailable"
    [] r = "refused" -> "denied" [] OTHER -> "error"

\* A process that is elevated is no standard user.
ProbeStandardUser(r) ==
  CASE r = "there" -> "available" [] r = "absent" -> "unavailable"
    [] r = "refused" -> "denied" [] OTHER -> "error"

StateOf(c, r) ==
  CASE c = "dll" -> ProbeDll(r)
    [] c \in {"event_channel", "wer"} -> ProbeFile(r)
    [] c = "tool" -> ProbeTool(r)
    [] c = "standard_user" -> ProbeStandardUser(r)

\* checked_at and what it is worth: when that was, and how far the clock had
\* been set back by then.
Stamp == [checked_at |-> clock, at |-> uptime, set_back |-> set_back]

CapabilitiesInit ==
  /\ uptime = 0
  /\ clock \in 0..MaxSetBack
  /\ set_back = 0
  /\ cached = NotCached
  /\ detecting = NotCached
  /\ last_answer = NotCached

\* Mutant: a snapshot is also valid at the moment it expires.
StillValidAtExpiry ==
  cached # NotCached /\ clock <= cached.checked_at + CacheTtl

StillValid == cached # NotCached /\ clock < cached.checked_at + CacheTtl

AnswerFromCache ==
  /\ detecting = NotCached
  /\ StillValid
  /\ last_answer' = [age |-> uptime - cached.at, set_back |-> set_back - cached.set_back]
  /\ UNCHANGED <<uptime, clock, set_back, cached, detecting>>

Detect ==
  /\ detecting = NotCached
  /\ ~ StillValid
  /\ detecting' = [stamp |-> Stamp, states |-> [c \in {} |-> "error"]]
  /\ UNCHANGED <<uptime, clock, set_back, cached, last_answer>>

\* Anything but Windows, and a system_info() that raises: its platform is
\* "unknown", so that no capability is reported as an error.
ProbeNothing ==
  /\ detecting # NotCached
  /\ DOMAIN detecting.states = {}
  /\ detecting' = [detecting EXCEPT !.states = [c \in Probed |-> "unsupported"]]
  /\ UNCHANGED <<uptime, clock, set_back, cached, last_answer>>

Probe(c, r) ==
  /\ detecting # NotCached
  /\ c \in Probed \ DOMAIN detecting.states
  /\ detecting' = [detecting EXCEPT !.states =
                     [d \in DOMAIN @ \cup {c} |-> IF d = c THEN StateOf(c, r) ELSE @[d]]]
  /\ UNCHANGED <<uptime, clock, set_back, cached, last_answer>>

\* The snapshot is dated from before the probes, not from when they are done.
Store ==
  /\ detecting # NotCached
  /\ DOMAIN detecting.states = Probed
  /\ cached' = [checked_at |-> detecting.stamp.checked_at, at |-> detecting.stamp.at,
                set_back |-> detecting.stamp.set_back, states |-> detecting.states]
  /\ detecting' = NotCached
  /\ UNCHANGED <<uptime, clock, set_back, last_answer>>

TimePasses ==
  /\ uptime < MaxNow
  /\ uptime' = uptime + 1
  /\ clock' = clock + 1
  /\ UNCHANGED <<set_back, cached, detecting, last_answer>>

SetClockBack ==
  /\ clock > 0 /\ set_back < MaxSetBack
  /\ clock' = clock - 1
  /\ set_back' = set_back + 1
  /\ UNCHANGED <<uptime, cached, detecting, last_answer>>

CapabilitiesNext ==
  \/ AnswerFromCache \/ Detect \/ ProbeNothing \/ Store \/ TimePasses \/ SetClockBack
  \/ \E c \in Probed, r \in Resource : Probe(c, r)

CapabilitiesSpec == CapabilitiesInit /\ [][CapabilitiesNext]_capabilityVars

-----------------------------------------------------------------------------
\* Everything in an answer from the cache was probed less than cache_ttl ago,
\* plus as much as the clock was set back since: the age a detection had
\* gathered when it was done counts, that of the clock does not.
AnswersAreRecent ==
  last_answer # NotCached => last_answer.age < CacheTtl + last_answer.set_back
=============================================================================
