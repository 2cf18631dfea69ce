-------------------------------- MODULE MLF --------------------------------
(***************************************************************************)
(* The MLF scheduler: round robin over the lines of the hashtable, that    *)
(* goes on where the last call stopped; at each visit every file of the    *)
(* line may have one request given back.                                   *)
(***************************************************************************)
EXTENDS WaitingCommon

CONSTANTS config_mlf_quantum, MAX_MLF_LOCK_TRIES

ASSUME MLFAssumption == config_mlf_quantum \in Nat \ {0} /\ MAX_MLF_LOCK_TRIES \in Nat

VARIABLES MLF_current_hash, MLF_lock_tries

mlfVars == <<MLF_current_hash, MLF_lock_tries>>

MLF_init == MLF_current_hash = 0 /\ MLF_lock_tries = [l \in Lines |-> 0]

\* The locals of MLF when it is called.
FirstRound == [start |-> MLF_current_hash, processed |-> FALSE]

\* The loop test, on an unlocked read of current_reqnb.
MLF_test ==
  /\ apc = "schedule"
  /\ IF current_reqnb > 0
     THEN Go("scan") /\ locals' = IF locals = <<>> THEN FirstRound ELSE locals
     ELSE Go("test") /\ locals' = <<>>
  /\ UNCHANGED <<users, structures, info, stop, history, waitVars, mlfVars>>

\* The round goes to the next line.  After a whole round without a request, MLF
\* returns how long to sleep: the shortest waiting time, or INT_MAX.
NextLine(processed, inLoop) ==
  LET next == (MLF_current_hash + 1) % NLines
      done == next = locals.start
  IN /\ MLF_current_hash' = next
     /\ IF done /\ ~ processed
        THEN Go("sleep") /\ locals' = <<>>
        ELSE Go(inLoop) /\ locals' = [locals EXCEPT !.processed = processed /\ ~ done]

\* A call of a user may hold the mutex of the line.
MayBeHeld(line) ==
  \E r \in Reqs : /\ LineOfQ(data[r].queue) = line
                  /\ pc[r] = "adding" \/ r \in Delivered \ (released \cup refused) \/ MayCancel(r)

\* hashtable_trylock fails, and has not failed too often.
MLF_skip ==
  /\ apc = "scan"
  /\ MayBeHeld(MLF_current_hash)
  /\ MLF_lock_tries[MLF_current_hash] < MAX_MLF_LOCK_TRIES
  /\ MLF_lock_tries' = [MLF_lock_tries EXCEPT ![MLF_current_hash] = @ + 1]
  /\ NextLine(locals.processed, "schedule")
  /\ UNCHANGED <<users, structures, info, stop, history, waitVars>>

\* applyMLFonlist: the first request of each queue whose quantum is large enough.
MLFPlace == [q \in Queues |-> SelectInSeq(Grown(q), LAMBDA r : Fits(r, config_mlf_quantum))]

\* A MLF step to file f: the queue it selects a request from (NoQueue if no quantum
\* is large enough), the request, and what the check made of the waiting time.
MLF_select_request(f, place) ==
  LET q   == QueueOf(f, place)
      req == Grown(q)[place[q]]
      answer == check_selection(req, Visited(f), globalinfo[q])
  IN IF q = NoQueue THEN [queue |-> q, proceeds |-> FALSE, wait |-> Visited(f)]
     ELSE [queue |-> q, req |-> req, proceeds |-> answer.proceeds, wait |-> answer.wait,
           info |-> IF answer.proceeds THEN waiting_algorithms_postprocess(req, answer.info)
                    ELSE answer.info]

\* The files of the line, unless its counter says there is nothing to find.
FilesHere == IF hashlist_reqcounter[MLF_current_hash] = 0 THEN {}
             ELSE {f \in files : LineOf[f] = MLF_current_hash}

\* One line, under its mutex.
MLF_visit ==
  /\ apc = "scan"
  /\ MLF_lock_tries' = [MLF_lock_tries EXCEPT ![MLF_current_hash] = 0]
  /\ \E place \in {MLFPlace} :
     \E selected \in {[f \in FilesHere |-> MLF_select_request(f, place)]} :
       LET Selects(q) == FileOf(q) \in FilesHere /\ selected[FileOf(q)].queue = q
           going == {f \in FilesHere : selected[f].proceeds}
       IN /\ queues' = [q \in Queues |->
               IF FileOf(q) \notin FilesHere \/ ~ LookedAt(q, place) THEN queues[q]
               ELSE IF Selects(q) /\ FileOf(q) \in going THEN RemoveAt(Grown(q), place[q])
               ELSE Grown(q)]
          /\ waiting' = [f \in Files |-> IF f \in FilesHere THEN selected[f].wait ELSE waiting[f]]
          /\ globalinfo' = [q \in Queues |-> IF Selects(q) THEN selected[FileOf(q)].info
                                             ELSE globalinfo[q]]
          /\ \E order \in [1 .. Cardinality(going) -> going] :
               /\ ToSet(order) = going
               /\ \A i, j \in DOMAIN order : i < j => order[i] < order[j]
               /\ Step1([i \in DOMAIN order |-> selected[order[i]].req])
          /\ NextLine(locals.processed \/ going # {},
                      IF going = {} THEN "schedule" ELSE "callback")
  /\ UNCHANGED <<users, timeline, multi_timeline, files, stop, history>>

MLF ==
  /\ current_alg = "MLF"
  /\ MLF_test \/ MLF_skip \/ MLF_visit
=============================================================================
