------------------------------ MODULE TaskRaces ------------------------------
(***************************************************************************)
(* The task of Task with a history of its races, and what its handlers     *)
(* promise when the users' requests overlap.  A handler reads in one       *)
(* statement and writes in another, and nothing makes it look again: a     *)
(* request is overtaken when what it has read has changed before it        *)
(* writes.  The history says which requests are overtaken and what they    *)
(* have written; it adds nothing to what Task does.                        *)
(***************************************************************************)
EXTENDS Task

VARIABLES
  overtaken,    \* requests that will write from a read that is out of date
  revived,      \* work that goes on although it was over
  strayOffers,  \* offers overtaken requests wrote while work went on
  miscounted    \* whether the last refresh of the counter left it wrong

history == <<overtaken, revived, strayOffers, miscounted>>
raceVars == <<vars, history>>

(* What the next write of a request rests on: the checks of create_offer,  *)
(* reject_announcement_offer and update_announcement_execution_stage, and  *)
(* the number _count_pending_offers returned.                              *)
View(s) ==
  LET o == loc[s].offer IN
  CASE loc[s].pc = "insert" -> Active
    [] loc[s].pc = "resend" -> <<Active, offer[o].status>>
    [] loc[s].pc = "reject" -> offer[o].status
    [] loc[s].pc = "sync"   -> Pending(offer)
    [] loc[s].pc = "stage"  -> asn[o]
    [] OTHER                -> {}

Waits(s) == loc[s].pc # Free /\ loc'[s] = loc[s]

Acceptance == \E s \in Slots, o \in Offers : AcceptOffer(s, o)

LateStep == \E s \in overtaken : ~Waits(s)

(* A refresh of the counter that counts what is there, and one that stores *)
(* an old number or dies before it stores any.                             *)
Recounted == \E s \in Slots \ overtaken : SyncTask(s)

CountLost ==
  \/ \E s \in overtaken : SyncTask(s)
  \/ \E s \in Slots : loc[s].pc \in {"count", "sync"} /\ RequestDies(s)

Record ==
  /\ overtaken' =
       {s \in Slots : Waits(s) /\ (s \in overtaken \/ View(s)' # View(s))}
  /\ IF Acceptance
       THEN revived' = {} /\ strayOffers' = {} /\ miscounted' = FALSE
       ELSE /\ revived' = Active' \ (Active \ revived)
            /\ strayOffers' =
                 IF Active' \subseteq revived' THEN {}
                 ELSE IF LateStep
                   THEN strayOffers \cup {o \in Offers : offer'[o] # offer[o]}
                 ELSE strayOffers
            /\ miscounted' = IF CountLost THEN task'.responses # Pending(offer')
                             ELSE miscounted /\ ~Recounted

RaceInit ==
  /\ Init
  /\ overtaken = {} /\ revived = {} /\ strayOffers = {}
  /\ miscounted = FALSE

RaceNext == Next /\ Record

RaceSpec == RaceInit /\ [][RaceNext]_raceVars

----------------------------------------------------------------------------

(* Nobody waits for an answer on a task that is taken, and the offer of    *)
(* the work stays accepted: accepting one offer closes the open ones and   *)
(* create_offer opens none while work goes on.  Every offer that breaks    *)
(* this was written by a request that was overtaken, which spoils no other *)
(* row, and the next acceptance sets all of them right.                    *)
NoOpenOffersOnAssigned ==
  \A o \in Active \ revived :
    /\ offer[o].status = "accepted" \/ o \in strayOffers
    /\ \A q \in Offers : offer[q].status = "sent" => q \in strayOffers

(* The counter customers see is the number of offers that wait or are      *)
(* accepted unless a refresh is under way, although it is computed by one  *)
(* statement and stored by another (_sync_announcement_offers_count): only *)
(* a refresh that was overtaken or died leaves it wrong, and the next one  *)
(* that was not puts it right, whatever died and raced before.             *)
CountAtRest ==
  (\A s \in Slots : loc[s].pc \notin {"count", "sync"}) /\ ~miscounted
    => task.responses = Pending(offer)

(* An assignment only moves forward through the stages, and completed and  *)
(* cancelled work is over: update_announcement_execution_stage against     *)
(* deletions, new acceptances and failed requests.  Only a stage update    *)
(* whose assignment changed after it was read may take it back.            *)
StageForward ==
  [][\/ \A o \in Offers :
          asn[o].status # "none" /\ asn'[o] # asn[o] =>
            /\ asn[o].status \in Working
            /\ Rank(asn'[o].stage) > Rank(asn[o].stage)
     \/ \E s \in overtaken : WriteStage(s)]_asn
=============================================================================
