--------------------------- MODULE ServicesProofs ---------------------------
(***************************************************************************)
(* Proofs about the components side by side (MCServices): a behaviour of   *)
(* all of them is a behaviour of each, so whatever is proved of a component*)
(* holds in their company, for every value of the constants.               *)
(***************************************************************************)
EXTENDS MCServices, AccessProofs, AccountProofs, ChatProofs

----------------------------------------------------------------------------
(* Steps.                                                                  *)

AllInit ==
  /\ SessionsInit /\ AdminInit /\ RestrictInit /\ HubInit
  /\ ReadsInit /\ SupportInit /\ AccountInit /\ ReviewsInit /\ ThreadInit
  /\ ModeratorsInit /\ BreakerInit /\ LimitInit

LEMMA InitOfAll == ServicesInit => AllInit
  BY DEF ServicesInit, AllInit

LEMMA StandingStill ==
  UNCHANGED servicesVars =>
    /\ UNCHANGED sessionsVars /\ UNCHANGED adminVars /\ UNCHANGED restrictVars
    /\ UNCHANGED hubVars /\ UNCHANGED readsVars /\ UNCHANGED supportVars
    /\ UNCHANGED accountVars /\ UNCHANGED reviewVars /\ UNCHANGED threadVars
    /\ UNCHANGED moderatorVars /\ UNCHANGED breakerVars /\ UNCHANGED limitVars
  BY DEF servicesVars

LEMMA StepOfEach ==
  [ServicesNext]_servicesVars =>
    /\ [SessionsNext]_sessionsVars
    /\ [AdminNext]_adminVars
    /\ [RestrictNext]_restrictVars
    /\ [HubNext]_hubVars
    /\ [ReadsNext]_readsVars
    /\ [SupportNext]_supportVars
    /\ [AccountNext]_accountVars
    /\ [ReviewsNext]_reviewVars
    /\ [ThreadNext]_threadVars
    /\ [ModeratorsNext]_moderatorVars
    /\ [BreakerNext]_breakerVars
    /\ [LimitNext]_limitVars
  BY StandingStill DEF ServicesNext, Only

(* A behaviour of the components side by side is one of each of them.      *)
THEOREM EachComponent ==
  ServicesSpec =>
    /\ SessionsSpec /\ AdminSpec /\ RestrictSpec /\ HubSpec
    /\ ReadsSpec /\ SupportSpec /\ AccountSpec /\ ReviewsSpec
    /\ ThreadSpec /\ ModeratorsSpec /\ BreakerSpec /\ LimitSpec
  <1>1. ServicesSpec => ServicesInit /\ [][ServicesNext]_servicesVars
    BY PTL DEF ServicesSpec
  <1> QED BY <1>1, InitOfAll, StepOfEach, PTL
          DEF AllInit, SessionsSpec, AdminSpec, RestrictSpec, HubSpec,
              ReadsSpec, SupportSpec, AccountSpec, ReviewsSpec,
              ThreadSpec, ModeratorsSpec, BreakerSpec, LimitSpec

(* Whatever the components do side by side, every variable of every one    *)
(* keeps its type.                                                         *)
THEOREM ServicesTyping == ServicesSpec => []ServicesTypeOK
  <1>1. ServicesSpec => []SessionsTypeOK /\ []AdminTypeOK
    BY EachComponent, SessionsInitType, SessionsNextType, AdminInitType,
       AdminNextType, PTL DEF SessionsSpec, AdminSpec
  <1>2. ServicesSpec => []RestrictTypeOK /\ []ModeratorsTypeOK
    <2>1. RestrictInv => RestrictTypeOK
      BY DEF RestrictInv
    <2>2. ModeratorsInv => ModeratorsTypeOK
      BY DEF ModeratorsInv
    <2> QED BY <2>1, <2>2, EachComponent, RestrictCorrect, ModeratorsInitInv,
               ModeratorsStep, PTL DEF ModeratorsSpec
  <1>3. ServicesSpec => []AccountTypeOK /\ []ReviewsTypeOK
    <2>1. AccountInv => AccountTypeOK
      BY DEF AccountInv
    <2>2. ReviewsInv => ReviewsTypeOK
      BY DEF ReviewsInv
    <2> QED BY <2>1, <2>2, EachComponent, AccountInvInit, AccountInvNext,
               ReviewsInitInv, ReviewsInvNext, PTL DEF AccountSpec, ReviewsSpec
  <1>4. ServicesSpec => []ReadsTypeOK /\ []HubTypeOK
    <2>1. ReadsInv => ReadsTypeOK
      BY DEF ReadsInv
    <2>2. HubInv => HubTypeOK
      BY DEF HubInv
    <2> QED BY <2>1, <2>2, EachComponent, ReadsInvInit, ReadsInvNext,
               HubInitInv, HubInvNext, PTL DEF ReadsSpec, HubSpec
  <1>5. ServicesSpec => []ThreadTypeOK /\ []SupportTypeOK
    <2>1. ThreadInv => ThreadTypeOK
      BY DEF ThreadInv
    <2>2. SupportInv => SupportTypeOK
      BY DEF SupportInv
    <2> QED BY <2>1, <2>2, EachComponent, ThreadInitInv, ThreadInvNext,
               SupportInitInv, SupportInvNext, PTL DEF ThreadSpec, SupportSpec
  <1>6. ServicesSpec => []BreakerTypeOK /\ []LimitTypeOK
    <2>1. BreakerInv => BreakerTypeOK
      BY DEF BreakerInv
    <2>2. BreakerInv /\ [BreakerNext]_breakerVars => BreakerInv'
      BY BreakerStep
    <2> QED BY <2>1, <2>2, EachComponent, BreakerInitInv, LimitTyping, PTL
            DEF BreakerSpec
  <1>7. ServicesSpec => [](focus \in Focuses)
    <2>1. ServicesInit => focus \in Focuses
      BY DEF ServicesInit
    <2>2. focus \in Focuses /\ [ServicesNext]_servicesVars => (focus \in Focuses)'
      BY DEF ServicesNext, Only, servicesVars
    <2> QED BY <2>1, <2>2, PTL DEF ServicesSpec
  <1>8. /\ focus \in Focuses
        /\ SessionsTypeOK /\ AdminTypeOK /\ RestrictTypeOK /\ HubTypeOK
        /\ ReadsTypeOK /\ SupportTypeOK /\ AccountTypeOK /\ ReviewsTypeOK
        /\ ThreadTypeOK /\ ModeratorsTypeOK /\ BreakerTypeOK /\ LimitTypeOK
        => ServicesTypeOK
    BY DEF ServicesTypeOK
  <1> QED BY <1>1, <1>2, <1>3, <1>4, <1>5, <1>6, <1>7, <1>8, PTL

(* What is promised about who is let in, who may manage and who is held to *)
(* what, what is stored, shown and said, and what is limited, all at once. *)
Promises ==
  /\ LockFollowsCount /\ NoLateAdmission /\ ClientKeepsUp
  /\ NoSessionWhileDisabled /\ AnAdminRemains
  /\ LiftedIsOver /\ OutcomeHasRestriction /\ IntroducedFirst
  /\ ReferencedIsStored /\ NothingLiveOfDeleted /\ QuietSetsRight
  /\ NothingMissed /\ TruthfulReceipts /\ NothingUnreadAgain
  /\ QuietCallHeals /\ UserStaysHeard /\ ThreadSettles
  /\ WithinLimits

(* The components side by side keep every promise of each of them.         *)
THEOREM ServicesKeepPromises == ServicesSpec => []Promises /\ OpensForCause
  <1>1. /\ LockFollowsCount /\ NoLateAdmission /\ ClientKeepsUp
        /\ NoSessionWhileDisabled /\ AnAdminRemains
        /\ LiftedIsOver /\ OutcomeHasRestriction /\ IntroducedFirst
        /\ ReferencedIsStored /\ NothingLiveOfDeleted /\ QuietSetsRight
        /\ NothingMissed /\ TruthfulReceipts /\ NothingUnreadAgain
        /\ QuietCallHeals /\ UserStaysHeard /\ ThreadSettles
        /\ WithinLimits
        => Promises
    BY DEF Promises
  <1> QED BY <1>1, EachComponent, LockIsCounted, NoneAdmittedLate, ClientIsServed,
             WithdrawnStays, SomebodyRemains, LiftedStaysLifted,
             OutcomesAreReal, HeardWhenIntroduced, StorageKept, DeletedIsGone,
             QuietRatings, NoMessageMissed, ReceiptsTrue, ReadStaysRead,
             QuietCallsHeal, UsersStayHeard, SettledStays, NeverOverTheLimit,
             OpenedForCause, PTL
=============================================================================
