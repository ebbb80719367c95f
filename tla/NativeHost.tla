----------------------------- MODULE NativeHost -----------------------------
(***************************************************************************)
(* A whole run of the host program: its start (bin/host/src/cfg.rs), the   *)
(* server task, the fault-proof client beside it                           *)
(* (crates/client/src/fp_client.rs) and the exit code.                     *)
(*                                                                         *)
(* The client reads the claim, derives L2 blocks from the data source of   *)
(* OracleHost until it reaches the claimed number or the end of the inbox, *)
(* and compares output roots.  Every piece of data handed up gives one L2  *)
(* block; the output root of a block is the sequence of the blocks from    *)
(* the agreed one up to it.  In server mode the client is a process of its *)
(* own.                                                                    *)
(***************************************************************************)
EXTENDS OracleHost, Concatenation

CONSTANTS
    Settings,       \* the command lines considered
    Claims,         \* the claims considered
    AgreedNumber    \* the number of the agreed L2 block, the first safe head

Data == Calldata \cup Frames

\* clap: a proxy address requires the addresses of the nodes.
CommandLine ==
    {s \in [server : BOOLEAN, kona_offline : BOOLEAN,
            proxy : {"none", "unparsable", "url"}] :
        s.kona_offline => s.proxy = "none"}

ASSUME NativeAssumption ==
    /\ Settings \subseteq CommandLine
    /\ Claims \subseteq [number : Nat, root : Seq(Data)]
    /\ AgreedNumber \in Nat

VARIABLES
    settings,    \* self.kona_cfg and self.eigenda_proxy_address
    claim,       \* what BootInfo holds of the claim
    task,        \* the server task: "none", "running" or how it ended
    client,      \* where the client stands, or its result
    l2,          \* the L2 blocks executed, from the agreed one on
    exit         \* how the host process ended: 0 is "success", 1 "failure"

native_vars == <<settings, claim, task, client, l2, exit>>
all_vars == <<oracle_vars, native_vars>>

Verdicts == {"ok", "invalid", "error"}

-----------------------------------------------------------------------------
(***************************************************************************)
(* start, start_server, create_providers                                   *)
(***************************************************************************)

IsOffline == settings.kona_offline /\ settings.proxy = "none"

\* The store cannot be opened, or a provider is missing or fails: nothing is
\* spawned and the error ends the program.
StartFails ==
    /\ task = "none"
    /\ exit' = "failure"
    /\ UNCHANGED <<oracle_vars, settings, claim, task, client, l2>>

\* The server task is spawned, then the client.
Start ==
    /\ task = "none"
    /\ IsOffline \/ settings.proxy = "url"
    /\ task' = "running"
    /\ client' = "prologue"
    /\ UNCHANGED <<oracle_vars, settings, claim, l2, exit>>

-----------------------------------------------------------------------------
(***************************************************************************)
(* run_fp_client                                                           *)
(***************************************************************************)

\* Mutant of Prologue: the agreed root is looked for first.
PrologueRootFirst ==
    /\ client = "prologue"
    /\ host = "up"
    /\ client' = IF claim.root = << >> THEN "ok"
                 ELSE IF claim.number < AgreedNumber THEN "invalid"
                 ELSE "derive"
    /\ UNCHANGED <<oracle_vars, settings, claim, task, l2, exit>>

\* BootInfo::load, fetch_safe_head_hash and header_by_hash succeed.
Prologue ==
    /\ client = "prologue"
    /\ host = "up"
    /\ client' = IF claim.number < AgreedNumber THEN "invalid"
                 ELSE IF claim.root = << >> THEN "ok"
                 ELSE "derive"
    /\ UNCHANGED <<oracle_vars, settings, claim, task, l2, exit>>

DataIn(entries) == [i \in DOMAIN entries |-> entries[i].data]

\* The data handed up so far, in the order of the inbox.
Handed == Concat([b \in Blocks |-> DataIn(out[b])])

Reached == AgreedNumber + Len(l2) >= claim.number

\* advance_to_target (kona) executes a block as soon as there is one.  After a
\* reset the same data is handed up again and gives no block a second time.
CanExecute == ~Reached /\ Len(l2) < Len(Handed)

Execute ==
    /\ client = "derive"
    /\ pc = "idle"
    /\ CanExecute
    /\ l2' = Append(l2, Handed[Len(l2) + 1])
    /\ UNCHANGED <<oracle_vars, settings, claim, task, client, exit>>

\* Otherwise it asks the pipeline for more.
Advancing == client = "derive" /\ ~Reached /\ ~CanExecute

\* The steps of the data source and of its provider, critical errors included.
Derivation ==
    /\ \/ Advancing /\ OracleCall
       \/ OracleEthStep /\ (EthStep \/ host = "down")
       \/ SendHint
       \/ ReceiveValidity
       \/ ReceiveFieldElement
       \/ ReturnPayload
       \/ OracleError /\ host = "down"
       \/ Advancing /\ \E b \in Blocks : OracleReset(b)
    /\ UNCHANGED native_vars

\* A temporary error, which the pipeline answers with another call.
TransientError ==
    /\ host = "up"
    /\ OracleError \/ (OracleEthStep /\ ~EthStep)
    /\ UNCHANGED native_vars

\* The target is reached, or the inbox is exhausted and the safe head takes
\* its place; the epilogue compares the output roots.
Conclude ==
    /\ client = "derive"
    /\ pc = "idle"
    /\ ~CanExecute
    /\ Reached \/ Finished
    /\ client' = IF l2 = claim.root THEN "ok" ELSE "invalid"
    /\ UNCHANGED <<oracle_vars, settings, claim, task, l2, exit>>

\* The prologue or the driver fails, a critical error of the data source
\* among the reasons.
ClientFails ==
    /\ client \in {"prologue", "derive"}
    /\ pc \in {"idle", "halted"}
    /\ client' = "error"
    /\ UNCHANGED <<oracle_vars, settings, claim, task, l2, exit>>

-----------------------------------------------------------------------------
(***************************************************************************)
(* The server task                                                         *)
(***************************************************************************)

\* A key of the client's, or one of kona's own, is not in the store.
Missing ==
    \/ asked /\ ~(Wanted \subseteq DOMAIN kv)
    \/ client = "prologue"
    \/ pc = "eth" /\ ~eth.open

\* Only the online backend handles hints.
Serve ==
    /\ task = "running"
    /\ ~IsOffline
    /\ \E r \in AnyReply : HandleHint(r)
    /\ UNCHANGED native_vars

\* The offline backend gives up when a key is missing.
GiveUp ==
    /\ task = "running"
    /\ IsOffline
    /\ Missing
    /\ HostEnds
    /\ UNCHANGED native_vars

\* The channel is closed when the client returns, which ends the server.
ChannelCloses ==
    /\ task = "running"
    /\ client \in Verdicts
    /\ HostEnds
    /\ task' = "returned"
    /\ UNCHANGED <<settings, claim, client, l2, exit>>

\* Otherwise the server task ends with an error or with a panic.
ServerBreaks ==
    /\ task = "running"
    /\ host = "down"
    /\ task' \in {"failed", "panicked"}
    /\ UNCHANGED <<oracle_vars, settings, claim, client, l2, exit>>

-----------------------------------------------------------------------------
(***************************************************************************)
(* The exit code                                                           *)
(***************************************************************************)

\* Mutant of NativeExit: the process ends with its server.
NativeExitWithServer ==
    /\ ~settings.server
    /\ task \notin {"none", "running"}
    /\ exit' = IF task = "returned" THEN "success" ELSE "failure"
    /\ UNCHANGED <<oracle_vars, settings, claim, task, client, l2>>

\* try_join! ends at once if a task panics; otherwise it waits for both tasks,
\* and of the results only the client's counts.
NativeExit ==
    /\ ~settings.server
    /\ \/ task = "panicked" /\ exit' = "failure"
       \/ /\ task \in {"returned", "failed"}
          /\ client \in Verdicts
          /\ exit' = IF client = "ok" THEN "success" ELSE "failure"
    /\ UNCHANGED <<oracle_vars, settings, claim, task, client, l2>>

\* In server mode the result of the server is the result of the program.
ServerExit ==
    /\ settings.server
    /\ task \notin {"none", "running"}
    /\ exit' = IF task = "returned" THEN "success" ELSE "failure"
    /\ UNCHANGED <<oracle_vars, settings, claim, task, client, l2>>

NativeInit ==
    /\ OracleInit
    /\ settings \in Settings
    /\ claim \in Claims
    /\ task = "none"
    /\ client = "none"
    /\ l2 = << >>
    /\ exit = "none"

\* The client of server mode lives on after the host.
Alive == exit = "none" \/ (settings.server /\ client \in {"prologue", "derive"})

NativeDone == ~Alive /\ UNCHANGED all_vars

HostStep ==
    \/ StartFails
    \/ Start
    \/ GiveUp
    \/ ChannelCloses
    \/ ServerBreaks
    \/ NativeExit
    \/ ServerExit

ClientStep ==
    \/ Prologue
    \/ Derivation
    \/ Execute
    \/ Conclude
    \/ ClientFails

NativeNext ==
    \/ exit = "none" /\ (HostStep \/ Serve)
    \/ Alive /\ (ClientStep \/ TransientError)
    \/ NativeDone

NativeSpec == NativeInit /\ [][NativeNext]_all_vars

\* Both tasks are scheduled; temporary errors do not go on for ever; and while
\* the host waits for the same key, the proxy at last gives an answer that
\* holds it.
NativeFairness ==
    /\ WF_all_vars(exit = "none" /\ HostStep)
    /\ WF_all_vars(Alive /\ ClientStep)
    /\ SF_all_vars(exit = "none" /\ Serve /\ Wanted \subseteq DOMAIN kv')
    /\ <>[][~TransientError]_all_vars

NativeFairSpec == NativeSpec /\ NativeFairness

-----------------------------------------------------------------------------
NativeTypeOK ==
    /\ OracleTypeOK
    /\ settings \in Settings
    /\ claim \in Claims
    /\ task \in {"none", "running", "returned", "failed", "panicked"}
    /\ client \in {"none", "prologue", "derive"} \cup Verdicts
    /\ l2 \in Seq(Data)
    /\ exit \in {"none", "success", "failure"}

\* What each item of a block contributes, by its meaning alone.
Contributions(b) ==
    [k \in 1..Len(chain[b]) |->
        IF Delivers(chain[b][k], b) THEN <<DataOf(chain[b][k])>> ELSE << >>]

\* What the inbox says, whatever happens on the way.
TrueL2 == Concat([b \in Blocks |-> Concat(Contributions(b))])

\* The claim is about the last block the inbox gives up to its number.
ClaimHolds ==
    LET length == IF claim.number - AgreedNumber < Len(TrueL2)
                  THEN claim.number - AgreedNumber ELSE Len(TrueL2)
    IN  /\ claim.number >= AgreedNumber
        /\ claim.root = SubSeq(TrueL2, 1, length)

\* Whatever the host, the proxy and the store do, and however often the
\* pipeline is reset, the client confirms only claims that hold, or that repeat
\* the agreed root for a later block, and refutes only those that do not hold
\* (run_fp_client).
VerdictIsRight ==
    /\ client = "ok" =>
          ClaimHolds \/ (claim.root = << >> /\ claim.number >= AgreedNumber)
    /\ client = "invalid" => ~ClaimHolds

\* A native host exits with 0 exactly if its client confirmed the claim: an
\* error of the server, which is ignored, never hides the verdict, and no
\* verdict is lost when the server is stopped (start_native).
ExitIsVerdict ==
    (~settings.server /\ exit # "none") => (exit = "success" <=> client = "ok")

\* The program ends: neither task waits for ever for the other, be it that the
\* server fails first or that the client does (start_native, try_join).
ProgramEnds == <>[](~Alive)

=============================================================================
