------------------------------- MODULE Discovery -------------------------------
(***************************************************************************)
(* internal/riotclient/discovery.go and credentials.go: how the local API  *)
(* of the Riot Client is found, from the lockfile it writes or from its    *)
(* command line, while clients start, hang, exit and crash.  Credentials   *)
(* are reduced to the client they belong to and the protocol; port and     *)
(* password follow from the client.                                        *)
(***************************************************************************)
EXTENDS Naturals

CONSTANTS
  MaxClients,   \* bound: Riot Clients started
  attempts      \* rounds of discovery in one call

ASSUME DiscoveryAssumption == MaxClients \in Nat /\ attempts \in Nat \ {0}

VARIABLES
  riot,         \* each Riot Client: not started, starting, answering, hung or gone
  lockfile,     \* whose lockfile is there, and how much of it
  elsewhere,    \* the client is installed where its lockfile is not looked for
  step,         \* where discovery.find stands
  attempt,
  creds,        \* the credentials being checked, or found
  steady        \* history: the clients each source has had since the call began

envFoundVars == <<riot, lockfile, elsewhere>>
findVars == <<step, attempt, creds>>
findingVars == <<envFoundVars, findVars>>
foundVars == <<findingVars, steady>>

RiotClient == 1..MaxClients
NoFile == [of |-> 0, text |-> "missing"]
NoCreds == [of |-> 0, protocol |-> "https"]

FindInit ==
  /\ riot = [r \in RiotClient |-> "none"]
  /\ lockfile = NoFile /\ elsewhere \in BOOLEAN
  /\ step = "idle" /\ attempt = 0 /\ creds = NoCreds
  /\ steady = [lockfile |-> {}, process |-> {}]

--------------------------------------------------------------------------------
(* The Riot Client.  There is one at a time, beside any that hang.         *)

Alive(r) == riot[r] \in {"starting", "answering"}
Listed(r) == riot[r] \in {"starting", "answering", "hung"}

\* The lockfile is written piece by piece over what was there.
RiotStarts(r) ==
  /\ riot[r] = "none"
  /\ \A q \in RiotClient : (q < r => riot[q] # "none") /\ ~Alive(q)
  /\ riot' = [riot EXCEPT ![r] = "starting"]
  /\ lockfile' = IF elsewhere THEN lockfile ELSE [of |-> r, text |-> "partial"]
  /\ UNCHANGED <<elsewhere, findVars>>

\* Cut after its fourth letter the protocol https reads http.
RiotWrites(r) ==
  /\ Listed(r)
  /\ lockfile.of = r /\ lockfile.text \in {"partial", "http"}
  /\ \E text \in {"http", "whole"} \ {lockfile.text} : lockfile' = [of |-> r, text |-> text]
  /\ UNCHANGED <<riot, elsewhere, findVars>>

RiotAnswers(r) ==
  /\ riot[r] = "starting"
  /\ riot' = [riot EXCEPT ![r] = "answering"]
  /\ UNCHANGED <<lockfile, elsewhere, findVars>>

\* Exiting removes the lockfile; a crash leaves it, a hung client both.
RiotEnds(r) ==
  /\ Listed(r)
  /\ \/ riot' = [riot EXCEPT ![r] = "gone"]
        /\ lockfile' \in {lockfile} \cup (IF lockfile.of = r THEN {NoFile} ELSE {})
     \/ /\ Alive(r)
        /\ riot' = [riot EXCEPT ![r] = "hung"]
        /\ UNCHANGED lockfile
  /\ UNCHANGED <<elsewhere, findVars>>

--------------------------------------------------------------------------------
(* discovery.find.                                                         *)

StartsFind ==
  /\ step \in {"idle", "found", "gave up"}
  /\ step' = "lockfile" /\ attempt' = 1 /\ creds' = NoCreds
  /\ UNCHANGED envFoundVars

\* After its last source a round ends, and after the last round the call.
EndsRound ==
  /\ creds' = NoCreds
  /\ IF attempt < attempts THEN step' = "sleep" /\ UNCHANGED attempt
                           ELSE step' = "gave up" /\ attempt' = 0

\* ParseLockfile, and readLockfile for a file that is not there.
ParsesAs(file) == IF file.text = "http" THEN "http" ELSE "https"

\* As readLockfile, waiting for the file instead of trying the processes.
readLockfileOnly ==
  /\ step = "lockfile"
  /\ IF lockfile.text \in {"missing", "partial"}
       THEN EndsRound
       ELSE /\ creds' = [of |-> lockfile.of, protocol |-> ParsesAs(lockfile)]
            /\ step' = "check lockfile"
            /\ UNCHANGED attempt
  /\ UNCHANGED envFoundVars

\* A missing or partial file is as good as none.
readLockfile ==
  /\ step = "lockfile"
  /\ IF lockfile.text \in {"missing", "partial"}
       THEN step' = "process" /\ UNCHANGED creds
       ELSE /\ creds' = [of |-> lockfile.of, protocol |-> ParsesAs(lockfile)]
            /\ step' = "check lockfile"
  /\ UNCHANGED <<attempt, envFoundVars>>

\* Of the processes that are listed the first one counts.
credentialsFromProcesses ==
  /\ step = "process"
  /\ \/ \E r \in RiotClient :
          /\ Listed(r)
          /\ creds' = [of |-> r, protocol |-> "https"]
          /\ step' = "check process"
          /\ UNCHANGED attempt
     \/ (\A r \in RiotClient : ~Listed(r)) /\ EndsRound
  /\ UNCHANGED envFoundVars

\* Any answer counts but a rejection, so only the client itself can pass, with
\* its own password on its own port; no other program has taken the port over.
\* Whether a port that speaks https answers to http is up to the client.
Passes == riot[creds.of] = "answering"
Fails == riot[creds.of] # "answering" \/ creds.protocol = "http"

\* As CheckLockfile, a file that fails the check ending the round.
CheckLockfileOnly ==
  /\ step = "check lockfile"
  /\ \/ Passes /\ step' = "found" /\ UNCHANGED <<creds, attempt>>
     \/ Fails /\ EndsRound
  /\ UNCHANGED envFoundVars

CheckLockfile ==
  /\ step = "check lockfile"
  /\ \/ Passes /\ step' = "found" /\ UNCHANGED creds
     \/ Fails /\ step' = "process" /\ creds' = NoCreds
  /\ UNCHANGED <<attempt, envFoundVars>>

CheckProcess ==
  /\ step = "check process"
  /\ \/ Passes /\ step' = "found" /\ UNCHANGED <<creds, attempt>>
     \/ Fails /\ EndsRound
  /\ UNCHANGED envFoundVars

Sleeps ==
  /\ step = "sleep"
  /\ step' = "lockfile" /\ attempt' = attempt + 1
  /\ UNCHANGED <<creds, envFoundVars>>

Finds ==
  \/ readLockfile \/ credentialsFromProcesses
  \/ CheckLockfile \/ CheckProcess \/ Sleeps

\* A client that answers, and that the lockfile or the process table leads to.
InLockfile(r) == riot[r] = "answering" /\ lockfile = [of |-> r, text |-> "whole"]
AloneListed(r) == riot[r] = "answering" /\ \A q \in RiotClient : Listed(q) => q = r
Sourced ==
  [lockfile |-> {r \in RiotClient : InLockfile(r)},
   process |-> {r \in RiotClient : AloneListed(r)}]

FindNext ==
  \/ StartsFind /\ steady' = Sourced
  \/ /\ \/ \E r \in RiotClient :
             RiotStarts(r) \/ RiotWrites(r) \/ RiotAnswers(r) \/ RiotEnds(r)
        \/ Finds
     /\ steady' = [lockfile |-> steady.lockfile \cap Sourced'.lockfile,
                   process |-> steady.process \cap Sourced'.process]

\* find runs to its end, the supervisor calls it again for ever, and a client
\* that starts writes its lockfile to the end.
FindFairness ==
  /\ WF_findingVars(Finds)
  /\ WF_findingVars(StartsFind)
  /\ \A r \in RiotClient : WF_findingVars(RiotWrites(r) /\ lockfile'.text = "whole")

FindSpec == FindInit /\ [][FindNext]_foundVars /\ FindFairness

--------------------------------------------------------------------------------
(* Properties.                                                             *)

\* "finds credentials, preferring the lockfile and falling back to the process
\* table", one call: a client that has answered since the call began is what
\* the call ends with, if all the while its whole lockfile was there or it was
\* the only one in the process table.  Neither a stale lockfile, one cut short
\* that passes for http, nor a hung client makes the call end with another or
\* give up, wherever in the call they come and go.
NoCallMissesIt ==
  step \in {"found", "gave up"} =>
    /\ \A r \in steady.lockfile :
         step = "found" /\ creds = [of |-> r, protocol |-> "https"]
    /\ \A r \in steady.process : step = "found" /\ creds.of = r

\* "preferring the lockfile and falling back to the process table when a
\* non-default install defeats it": a client that answers for good is found,
\* whatever lockfile an earlier one left, unless a hung one stands before it
\* in the process table and its own lockfile is not where it is looked for.
ClientIsFound ==
  \A r \in RiotClient :
    <>[](/\ riot[r] = "answering"
         /\ lockfile.of = r \/ \A q \in RiotClient : Listed(q) => q = r)
      => <>(step = "found" /\ creds = [of |-> r, protocol |-> "https"])
================================================================================
