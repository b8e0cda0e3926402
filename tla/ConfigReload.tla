---------------------------- MODULE ConfigReload ----------------------------
(***************************************************************************)
(* The configuration file and its hot reload: internal/config, the watcher *)
(* and reloadConfig of internal/core/agent.go, and the SIGHUP handler.     *)
(* The user writes the file; so does the agent, from memory, each time it  *)
(* has registered or verified; and whatever is written comes back into     *)
(* memory, and from there into the collector, through the watcher.         *)
(*                                                                         *)
(* Of the file only nic_filter is modelled, as two lists.                  *)
(* network_interface is reloaded like it, auto_update only when the file   *)
(* gives it; what is not reloaded concerns Agent.  A file that has been    *)
(* truncated and not yet written again, or only in part, is Empty.         *)
(* Reading or parsing may fail at any time.                                *)
(*                                                                         *)
(* A reload is short against the 500 ms of the debounce: when the timer of *)
(* an event fires, the reloads that ran at that event are over, and so is  *)
(* one that began beside them.                                             *)
(***************************************************************************)
EXTENDS Naturals, FiniteSets

CONSTANTS
  Filters,   \* what the user may write
  Empty,     \* both lists empty: a file without nic_filter, or truncated
  Shipped,   \* what the file says when the agent is started
  MaxEdits, MaxSaves, MaxSignals   \* bounds: edits, verifications, SIGHUPs

ASSUME ConfigAssumption ==
  /\ Empty \notin Filters /\ Shipped \in Filters
  /\ MaxEdits \in Nat /\ MaxSaves \in Nat /\ MaxSignals \in Nat

Lists == {"white", "black"}
Content == [Lists -> Filters \cup {Empty}]
Both(f) == [l \in Lists |-> f]
Reloaders == {"timer", "signal"}

VARIABLES
  file,       \* agent.yaml: its two lists
  mem,        \* Config.NICFilter
  collector,  \* SystemCollector.whitelist and .blacklist
  watching,   \* startConfigWatcher has been called
  armed,      \* the debounce timer
  before,     \* reloads that were under way at the last event, or began beside
              \* one that was
  at, read, left,   \* of each reload: where it is, the file it read or the
              \* arguments of UpdateNICFilter, the lists still to be assigned
  save, out,  \* Save on the main goroutine, and what it has marshalled
  edit,       \* what the user is writing in place, Empty if nothing
  edits, saves, signals,  \* count against the bounds
  unread,     \* history: no reload is to come for the file as it is, for it
              \* changed before the watcher was there, or the reload that the
              \* change brought could not read it
  lastEdit,   \* history: the last filter the user wrote
  overwritten \* history: a Save has written another over it, or cut the file

reload  == <<at, read, left>>
saving  == <<save, out, saves>>
user    == <<edit, edits, lastEdit>>
watcher == <<watching, armed, before, unread>>
reloadVars == <<file, mem, collector, reload, saving, user, watcher, signals, overwritten>>

\* main loads the file and makes the collector before it runs the agent
ReloadInit ==
  /\ file = Both(Shipped) /\ mem = file /\ collector = file /\ lastEdit = Shipped
  /\ watching = FALSE /\ armed = FALSE /\ before = {} /\ unread = FALSE
  /\ at = [r \in Reloaders |-> "idle"]
  /\ read = [r \in Reloaders |-> Both(Empty)] /\ left = [r \in Reloaders |-> {}]
  /\ save = "no" /\ out = Both(Empty) /\ edit = Empty
  /\ edits = 0 /\ saves = 0 /\ signals = 0 /\ overwritten = FALSE

Running == {r \in Reloaders : at[r] # "idle"}

\* mutation: events are ignored while a reload is under way
EventWhenIdle(content) ==
  /\ file' = content
  /\ armed' = IF Running = {} THEN watching ELSE armed
  /\ before' = Running
  /\ unread' = ~watching /\ UNCHANGED watching

\* the file is truncated, written or replaced, and fsnotify tells the watcher,
\* which restarts its timer
Event(content) ==
  /\ file' = content
  /\ armed' = watching /\ before' = Running
  /\ unread' = ~watching /\ UNCHANGED watching

-----------------------------------------------------------------------------
(* The user: an editor replaces the file or rewrites it in place. *)

Edited(f) == edits' = edits + 1 /\ lastEdit' = f /\ overwritten' = FALSE

Replace(f) ==
  /\ edit = Empty /\ edits < MaxEdits /\ Edited(f) /\ Event(Both(f))
  /\ UNCHANGED <<mem, collector, reload, saving, edit, signals>>

Truncate(f) ==
  /\ edit = Empty /\ edits < MaxEdits /\ Edited(f) /\ Event(Both(Empty))
  /\ edit' = f
  /\ UNCHANGED <<mem, collector, reload, saving, signals>>

Rewrite ==
  /\ edit # Empty /\ Event(Both(edit)) /\ edit' = Empty /\ overwritten' = FALSE
  /\ UNCHANGED <<mem, collector, reload, saving, edits, lastEdit, signals>>

-----------------------------------------------------------------------------
(* Save, on the main goroutine: Marshal, then os.WriteFile. *)

Marshal ==
  /\ save = "no" /\ saves < MaxSaves /\ saves' = saves + 1
  /\ save' = "marshalled" /\ out' = mem
  /\ UNCHANGED <<file, mem, collector, reload, user, watcher, signals, overwritten>>

OpenTruncate ==
  /\ save = "marshalled" /\ save' = "opened" /\ Event(Both(Empty))
  /\ UNCHANGED <<mem, collector, reload, out, saves, user, signals, overwritten>>

Write ==
  /\ save = "opened" /\ save' = "no" /\ out' = Both(Empty) /\ Event(out)
  /\ overwritten' = (overwritten \/ out # Both(lastEdit))
  /\ UNCHANGED <<mem, collector, reload, saves, user, signals>>

\* os.WriteFile returns an error, before it has truncated the file or after,
\* with a part of it written or nothing, and the caller drops the error
WriteFails ==
  /\ save # "no" /\ save' = "no" /\ out' = Both(Empty)
  /\ \/ UNCHANGED <<file, watcher>>
     \/ save = "opened" /\ Event(Both(Empty))
  /\ overwritten' = (overwritten \/ (save = "opened" /\ file' # Both(lastEdit)))
  /\ UNCHANGED <<mem, collector, reload, saves, user, signals>>

-----------------------------------------------------------------------------
(* The watcher, SIGHUP and reloadConfig. *)

StartWatching ==
  /\ ~watching /\ watching' = TRUE
  /\ UNCHANGED <<file, mem, collector, reload, saving, user, armed, before, unread,
                 signals, overwritten>>

\* ReadFile is what a reload begins with
Begin(r) ==
  /\ at[r] = "idle" /\ at' = [at EXCEPT ![r] = "assign"]
  /\ read' = [read EXCEPT ![r] = file] /\ left' = [left EXCEPT ![r] = Lists]
  /\ unread' = (unread /\ before # {})
  /\ UNCHANGED <<file, mem, collector, saving, user, watching, overwritten>>

\* or it cannot read the file, or not parse it, and returns with memory and the
\* collector as they were; nothing tries again
BeginFails(r) ==
  /\ at[r] = "idle" /\ UNCHANGED <<file, mem, collector, reload, saving, user, watching, overwritten>>

TimerFires ==
  /\ armed /\ before = {} /\ armed' = FALSE
  /\ Begin("timer") \/ (BeginFails("timer") /\ unread' = TRUE)
  /\ UNCHANGED <<before, signals>>

Hangup ==
  /\ watching /\ signals < MaxSignals /\ signals' = signals + 1
  /\ \/ /\ Begin("signal")
        /\ before' = IF before = {} THEN {} ELSE before \cup {"signal"}
     \/ BeginFails("signal") /\ UNCHANGED <<before, unread>>
  /\ UNCHANGED armed

\* mutation: like Load, it leaves what the file does not mention
AssignIfGiven(r, l) ==
  /\ at[r] = "assign" /\ l \in left[r]
  /\ mem' = [mem EXCEPT ![l] = IF read[r][l] = Empty THEN @ ELSE read[r][l]]
  /\ left' = [left EXCEPT ![r] = @ \ {l}]
  /\ UNCHANGED <<file, collector, at, read, saving, user, watcher, signals, overwritten>>

\* the assignment of NICFilter, one list at a time
Assign(r, l) ==
  /\ at[r] = "assign" /\ l \in left[r]
  /\ mem' = [mem EXCEPT ![l] = read[r][l]] /\ left' = [left EXCEPT ![r] = @ \ {l}]
  /\ UNCHANGED <<file, collector, at, read, saving, user, watcher, signals, overwritten>>

\* the arguments of UpdateNICFilter
Call(r) ==
  /\ at[r] = "assign" /\ left[r] = {} /\ at' = [at EXCEPT ![r] = "update"]
  /\ read' = [read EXCEPT ![r] = mem] /\ left' = [left EXCEPT ![r] = Lists]
  /\ UNCHANGED <<file, mem, collector, saving, user, watcher, signals, overwritten>>

Update(r, l) ==
  /\ at[r] = "update" /\ l \in left[r] /\ (l = "black" => "white" \notin left[r])
  /\ collector' = [collector EXCEPT ![l] = read[r][l]]
  /\ left' = [left EXCEPT ![r] = @ \ {l}]
  /\ UNCHANGED <<file, mem, at, read, saving, user, watcher, signals, overwritten>>

Return(r) ==
  /\ at[r] = "update" /\ left[r] = {} /\ at' = [at EXCEPT ![r] = "idle"]
  /\ before' = before \ {r} /\ read' = [read EXCEPT ![r] = Both(Empty)]
  /\ UNCHANGED <<file, mem, collector, left, saving, user, watching, armed, unread,
                 signals, overwritten>>

ReloadStep(r) ==
  \/ \E l \in Lists : Assign(r, l) \/ Update(r, l)
  \/ Call(r) \/ Return(r)

ReloadNext ==
  \/ \E f \in Filters : Replace(f) \/ Truncate(f)
  \/ Rewrite \/ Marshal \/ OpenTruncate \/ Write \/ WriteFails
  \/ StartWatching \/ TimerFires \/ Hangup
  \/ \E r \in Reloaders : ReloadStep(r)

\* timers fire, goroutines run, the user finishes what has been begun, and
\* os.WriteFile returns, with an error or without
ReloadFairness ==
  /\ WF_reloadVars(Rewrite) /\ WF_reloadVars(OpenTruncate \/ Write \/ WriteFails) /\ WF_reloadVars(TimerFires)
  /\ \A r \in Reloaders : WF_reloadVars(ReloadStep(r))

ReloadSpec == ReloadInit /\ [][ReloadNext]_reloadVars /\ ReloadFairness

-----------------------------------------------------------------------------
\* The type of every variable.
ReloadTypeOK ==
  /\ file \in Content /\ mem \in Content /\ collector \in Content /\ out \in Content
  /\ watching \in BOOLEAN /\ armed \in BOOLEAN /\ unread \in BOOLEAN
  /\ overwritten \in BOOLEAN
  /\ before \subseteq Reloaders
  /\ at \in [Reloaders -> {"idle", "assign", "update"}]
  /\ read \in [Reloaders -> Content] /\ left \in [Reloaders -> SUBSET Lists]
  /\ save \in {"no", "marshalled", "opened"} /\ edit \in Filters \cup {Empty}
  /\ edits \in 0..MaxEdits /\ saves \in 0..MaxSaves /\ signals \in 0..MaxSignals
  /\ lastEdit \in Filters

\* Whenever no reload is due or under way, memory and the collector hold what
\* the file says, both lists of it, whatever reloads have overlapped, failed or
\* read a half-written file; unless the watcher was not there for the last
\* change, or the reload it brought failed, and no other has read the file since.
QuietIsCurrent ==
  ~armed /\ Running = {} /\ ~unread => mem = file /\ collector = file

\* An edit takes hold in the collector in the end, unless a Save has written
\* memory that had not seen it over it, or has left the file cut, or no reload
\* reads it, as above: neither is repaired by the code.
EditTakesHold == <>[](overwritten \/ unread \/ collector = Both(lastEdit))
=============================================================================
