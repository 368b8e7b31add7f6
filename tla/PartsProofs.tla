------------------------------ MODULE PartsProofs ------------------------------
(* The parts beside the session server, as they are put together in MCParts:     *)
(* every behaviour of the whole is one of each part, so that what is proved of a  *)
(* part on its own holds in the whole; with it the type invariant of the whole.   *)
EXTENDS MCParts, ServerPartsProofs, ReviewProofs, CommandProofs, DappProofs

-----------------------------------------------------------------------------
(* A step of the whole is a step of each part, or leaves it alone *)

ServerSideSteps ==
  /\ [LimitNext]_limitVars /\ [StoreNext]_storeVars
  /\ [TableNext]_tableVars /\ [ProcessNext]_processVars
ClientSideSteps ==
  /\ [ReviewNext]_reviewVars /\ [PolicyNext]_policyVars
  /\ [PollNext]_pollVars /\ [CoordNext]_coordVars
ToolSteps ==
  /\ [CeremonyNext]_ceremonyVars /\ [AirNext]_airVars
  /\ [ScheduleNext]_scheduleVars /\ [NodeNext]_nodeVars
EachSteps == ServerSideSteps /\ ClientSideSteps /\ ToolSteps

LEMMA StillParts ==
  /\ UNCHANGED serverSide => ServerSideSteps
  /\ UNCHANGED clientSide => ClientSideSteps
  /\ UNCHANGED tools => ToolSteps
  BY DEF serverSide, clientSide, dapp, tools, ServerSideSteps, ClientSideSteps, ToolSteps

LEMMA ServerPartSteps ==
  ASSUME LimitPart \/ StorePart \/ TablePart \/ ProcessPart
  PROVE  EachSteps /\ UNCHANGED part
<1>1. CASE LimitPart
  BY <1>1, StillParts DEF LimitPart, EachSteps, ServerSideSteps
<1>2. CASE StorePart
  BY <1>2, StillParts DEF StorePart, EachSteps, ServerSideSteps
<1>3. CASE TablePart
  BY <1>3, StillParts DEF TablePart, EachSteps, ServerSideSteps
<1>4. CASE ProcessPart
  BY <1>4, StillParts DEF ProcessPart, EachSteps, ServerSideSteps
<1> QED BY <1>1, <1>2, <1>3, <1>4

LEMMA ClientPartSteps ==
  ASSUME ReviewPart \/ PolicyPart \/ PollPart \/ CoordPart
  PROVE  EachSteps /\ UNCHANGED part
<1>1. CASE ReviewPart
  BY <1>1, StillParts DEF ReviewPart, dapp, EachSteps, ClientSideSteps
<1>2. CASE PolicyPart
  BY <1>2, StillParts DEF PolicyPart, dapp, EachSteps, ClientSideSteps
<1>3. CASE PollPart
  BY <1>3, StillParts DEF PollPart, EachSteps, ClientSideSteps
<1>4. CASE CoordPart
  BY <1>4, StillParts DEF CoordPart, EachSteps, ClientSideSteps
<1> QED BY <1>1, <1>2, <1>3, <1>4

LEMMA ToolPartSteps ==
  ASSUME CeremonyPart \/ AirPart \/ SchedulePart \/ NodesPart
  PROVE  EachSteps /\ UNCHANGED part
<1>1. CASE CeremonyPart
  BY <1>1, StillParts DEF CeremonyPart, EachSteps, ToolSteps
<1>2. CASE AirPart
  BY <1>2, StillParts DEF AirPart, EachSteps, ToolSteps
<1>3. CASE SchedulePart
  BY <1>3, StillParts DEF SchedulePart, EachSteps, ToolSteps
<1>4. CASE NodesPart
  BY <1>4, StillParts DEF NodesPart, EachSteps, ToolSteps
<1> QED BY <1>1, <1>2, <1>3, <1>4

LEMMA WholeSteps == [PartsNext]_partsVars => EachSteps /\ UNCHANGED part
<1>1. CASE UNCHANGED partsVars
  BY <1>1, StillParts DEF partsVars, EachSteps
<1> QED BY <1>1, ServerPartSteps, ClientPartSteps, ToolPartSteps DEF PartsNext

-----------------------------------------------------------------------------
(* The whole implements each part *)

LEMMA WholeInit ==
  PartsInit =>
    /\ part \in Parts
    /\ LimitInit /\ StoreInit /\ TableInit /\ ProcessInit /\ ReviewInit /\ PolicyInit
    /\ CeremonyInit /\ AirInit /\ ScheduleInit /\ PollInit /\ NodeInit /\ CoordInit
  BY DEF PartsInit

\* Every behaviour of the whole is one of the server's parts: of the rate limiter,
\* the session store, the session table and the process.
THEOREM ServerSideImplemented ==
  PartsSpec => /\ LimitInit /\ [][LimitNext]_limitVars
               /\ StoreInit /\ [][StoreNext]_storeVars
               /\ TableInit /\ [][TableNext]_tableVars
               /\ ProcessInit /\ [][ProcessNext]_processVars
<1>1. [PartsNext]_partsVars =>
        /\ [LimitNext]_limitVars /\ [StoreNext]_storeVars
        /\ [TableNext]_tableVars /\ [ProcessNext]_processVars
  BY WholeSteps DEF EachSteps, ServerSideSteps
<1> QED BY <1>1, WholeInit, PTL DEF PartsSpec

\* ... one of the client's review and policy, and of the dApp's poll and
\* its coordinator's page.
THEOREM ClientSideImplemented ==
  PartsSpec => /\ ReviewInit /\ [][ReviewNext]_reviewVars
               /\ PolicyInit /\ [][PolicyNext]_policyVars
               /\ PollInit /\ [][PollNext]_pollVars
               /\ CoordInit /\ [][CoordNext]_coordVars
<1>1. [PartsNext]_partsVars =>
        /\ [ReviewNext]_reviewVars /\ [PolicyNext]_policyVars
        /\ [PollNext]_pollVars /\ [CoordNext]_coordVars
  BY WholeSteps DEF EachSteps, ClientSideSteps
<1> QED BY <1>1, WholeInit, PTL DEF PartsSpec

\* ... and one of the commands, and of the node selection.
THEOREM ToolsImplemented ==
  PartsSpec => /\ CeremonyInit /\ [][CeremonyNext]_ceremonyVars
               /\ AirInit /\ [][AirNext]_airVars
               /\ ScheduleInit /\ [][ScheduleNext]_scheduleVars
               /\ NodeInit /\ [][NodeNext]_nodeVars
<1>1. [PartsNext]_partsVars =>
        /\ [CeremonyNext]_ceremonyVars /\ [AirNext]_airVars
        /\ [ScheduleNext]_scheduleVars /\ [NodeNext]_nodeVars
  BY WholeSteps DEF EachSteps, ToolSteps
<1> QED BY <1>1, WholeInit, PTL DEF PartsSpec

-----------------------------------------------------------------------------
(* What holds of a part holds in the whole *)

LEMMA ServerSideTyped ==
  PartsSpec => [](LimitTypeOK /\ StoreTypeOK /\ TableTypeOK /\ ProcessTypeOK)
<1>1. LimitInv /\ SessionLimitTyped => LimitTypeOK
  BY DEF LimitInv, LimitTypes, SessionLimitTyped, LimitTypeOK
<1>2. StoreInv => StoreTypeOK
  BY DEF StoreInv
<1>3. TableInv => TableTypeOK
  BY DEF TableInv
<1>4. ProcessTypes => ProcessTypeOK
  BY DEF ProcessTypes
<1>5. PartsSpec => []LimitTypeOK
  BY <1>1, ServerSideImplemented, LimitInvInit, LimitInvStep, SessionLimitInit,
     SessionLimitStep, PTL
<1>6. PartsSpec => []StoreTypeOK
  BY <1>2, ServerSideImplemented, StoreInvInit, StoreInvStep, PTL
<1>7. PartsSpec => []TableTypeOK
  BY <1>3, ServerSideImplemented, TableInvInit, TableInvStep, PTL
<1>8. PartsSpec => []ProcessTypeOK
  BY <1>4, ServerSideImplemented, ProcessTypesInit, ProcessTypesStep, PTL
<1> QED BY <1>5, <1>6, <1>7, <1>8, PTL

LEMMA PolicyTyped == PartsSpec => []PolicyTypeOK
  BY ClientSideImplemented, PolicyInvInit, PolicyInvStep, RateInvInit, RateInvStep,
     PolicyIsTyped, PTL

LEMMA ClientSideTyped ==
  PartsSpec => [](ReviewTypeOK /\ PolicyTypeOK /\ PollTypeOK /\ CoordTypeOK)
<1>1. ReviewInv => ReviewTypeOK
  BY DEF ReviewInv
<1>2. PollTypes => PollTypeOK
  BY DEF PollTypes
<1>3. CoordTypes => CoordTypeOK
  BY DEF CoordTypes
<1>4. PartsSpec => []ReviewTypeOK
  BY <1>1, ClientSideImplemented, ReviewInvInit, ReviewInvStep, PTL
<1>5. PartsSpec => []PollTypeOK
  BY <1>2, ClientSideImplemented, PollTypesInit, PollTypesStep, PTL
<1>6. PartsSpec => []CoordTypeOK
  BY <1>3, ClientSideImplemented, CoordTypesInit, CoordTypesStep, PTL
<1> QED BY <1>4, <1>5, <1>6, PolicyTyped, PTL

LEMMA ToolsTyped ==
  PartsSpec => [](CeremonyTypeOK /\ AirTypeOK /\ ScheduleTypeOK /\ NodeTypeOK)
<1>1. CeremonyTypes => CeremonyTypeOK
  BY DEF CeremonyTypes
<1>2. AirInv => AirTypeOK
  BY DEF AirInv
<1>3. NodeInv => NodeTypeOK
  BY DEF NodeInv
<1>4. PartsSpec => []CeremonyTypeOK
  BY <1>1, ToolsImplemented, CeremonyTypesInit, CeremonyTypesStep, PTL
<1>5. PartsSpec => []AirTypeOK
  BY <1>2, ToolsImplemented, AirInvInit, AirInvStep, PTL
<1>6. PartsSpec => []ScheduleTypeOK
  BY ToolsImplemented, ScheduleTypeInit, ScheduleTypeStep, PTL
<1>7. PartsSpec => []NodeTypeOK
  BY <1>3, ToolsImplemented, NodeInvInit, NodeInvStep, PTL
<1> QED BY <1>4, <1>5, <1>6, <1>7, PTL

\* The type invariant of the whole, which is every part's.
THEOREM PartsTypeCorrect == PartsSpec => []PartsTypeOK
<1>1. PartsSpec => [](part \in Parts)
  <2>1. part \in Parts /\ [PartsNext]_partsVars => (part \in Parts)'
    BY WholeSteps
  <2> QED BY <2>1, WholeInit, PTL DEF PartsSpec
<1>2. /\ part \in Parts
      /\ LimitTypeOK /\ StoreTypeOK /\ TableTypeOK /\ ProcessTypeOK
      /\ ReviewTypeOK /\ PolicyTypeOK /\ PollTypeOK /\ CoordTypeOK
      /\ CeremonyTypeOK /\ AirTypeOK /\ ScheduleTypeOK /\ NodeTypeOK
      => PartsTypeOK
  BY DEF PartsTypeOK
<1> QED BY <1>1, <1>2, ServerSideTyped, ClientSideTyped, ToolsTyped, PTL

\* The parts' safety in the whole, as its run checks it: what is saved stays where it
\* should, addresses fail so often and no more, peers that answer are kept, nothing
\* is signed, approved, recorded or said without its reason.
THEOREM PartsSafe ==
  PartsSpec => [](/\ FallbackIsLastResort /\ SignaturesKept /\ FailuresBounded
                  /\ PromptPeersKept
                  /\ SignedWasApproved /\ ApprovedWithinPolicy
                  /\ ApprovalsPerHour /\ RecordIsCurrent /\ HistoryTrue
                  /\ AnnouncedExpiryStops /\ ThresholdVerified /\ OutcomesTrue
                  /\ CountedSigned /\ SignersToldTrue /\ LivelyFirst)
<1>1. PartsSpec => [](/\ FallbackIsLastResort /\ SignaturesKept /\ FailuresBounded
                      /\ PromptPeersKept)
  <2>1. (KeepInv => FallbackIsLastResort /\ SignaturesKept) /\ (ProcessInv => PromptPeersKept)
    BY DEF KeepInv, Home, Keeping, FallbackIsLastResort, SignaturesKept, ProcessInv
  <2>2. PartsSpec => [](FallbackIsLastResort /\ SignaturesKept)
    BY <2>1, ServerSideImplemented, KeepInvInit, KeepInvStep, PTL
  <2>3. PartsSpec => []FailuresBounded
    BY ServerSideImplemented, BoundInvInit, BoundInvStep, BoundInvGives, PTL
  <2>4. PartsSpec => []PromptPeersKept
    BY <2>1, ServerSideImplemented, ProcessInvInit, ProcessInvStep, PTL
  <2> QED BY <2>2, <2>3, <2>4, PTL
<1>2. PartsSpec => [](SignedWasApproved /\ ApprovedWithinPolicy
                       /\ ApprovalsPerHour)
  <2>1. (ApprovedWasSaid => SignedWasApproved) /\ (PolicyInv => ApprovedWithinPolicy)
    BY DEF ApprovedWasSaid, SignedIn, SignedWasApproved, PolicyInv
  <2>2. PartsSpec => []SignedWasApproved
    BY <2>1, ClientSideImplemented, ApprovedWasSaidInit, ApprovedWasSaidStep, PTL
  <2>3. PartsSpec => [](ApprovedWithinPolicy)
    BY <2>1, ClientSideImplemented, PolicyInvInit, PolicyInvStep, PTL
  <2>4. PartsSpec => []ApprovalsPerHour
    BY RateIsKept, ClientSideImplemented, RateInvInit, RateInvStep, PTL
  <2> QED BY <2>2, <2>3, <2>4, PTL
<1>3. PartsSpec => [](RecordIsCurrent /\ HistoryTrue)
  <2>1. (PollInv => RecordIsCurrent) /\ (HistoryInv => HistoryTrue)
    BY DEF PollInv, HistoryInv
  <2>2. PartsSpec => []RecordIsCurrent
    BY <2>1, ClientSideImplemented, PollInvInit, PollInvStep, PTL
  <2>3. PartsSpec => []HistoryTrue
    BY <2>1, ClientSideImplemented, HistoryInvInit, HistoryInvStep, PTL
  <2> QED BY <2>2, <2>3, PTL
<1>4. PartsSpec => [](AnnouncedExpiryStops /\ ThresholdVerified /\ OutcomesTrue)
  <2>1. CeremonyInv => AnnouncedExpiryStops /\ ThresholdVerified /\ OutcomesTrue
    BY DEF CeremonyInv, Collecting, Executing, EnoughVerified, VerifiedTuples, Good, Told,
       AnnouncedExpiryStops, ThresholdVerified, OutcomesTrue
  <2> QED BY <2>1, ToolsImplemented, CeremonyInvInit, CeremonyInvStep, PTL
<1>5. PartsSpec => [](CountedSigned /\ SignersToldTrue /\ LivelyFirst)
  <2>1. (AirInv => CountedSigned) /\ (ScheduleInv => SignersToldTrue)
    BY DEF AirInv, ScheduleInv
  <2>2. PartsSpec => []CountedSigned
    BY <2>1, ToolsImplemented, AirInvInit, AirInvStep, PTL
  <2>3. PartsSpec => []SignersToldTrue
    BY <2>1, ToolsImplemented, ScheduleInvInit, ScheduleInvStep, PTL
  <2>4. PartsSpec => []LivelyFirst
    BY ToolsImplemented, NodeInvInit, NodeInvStep, NodeInvGives, PTL
  <2> QED BY <2>2, <2>3, <2>4, PTL
<1> QED BY <1>1, <1>2, <1>3, <1>4, <1>5, PTL
=============================================================================
