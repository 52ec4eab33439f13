---------------------------- MODULE QuotaNotices ----------------------------
(***************************************************************************)
(* The notices of a tenant's quota (pkg/billing/notifier.go, maybeNotify   *)
(* in meter.go): the first time in a month that usage reaches the warning  *)
(* threshold or the quota, a goroutine posts to a webhook (best effort).   *)
(*                                                                         *)
(* A call adds to the counter of the month and compares; it then decides   *)
(* on a notice with the ratio it got, under a lock, and with the month as  *)
(* the clock has it by then.                                               *)
(***************************************************************************)
EXTENDS UsageMeter, Sequences

CONSTANTS
    Usage,               \* calls that are charged, each once
    UsageLimit,          \* the quota
    UsageWarn,           \* the usage that is warned of
    LastMonth            \* bound: months that pass

ASSUME NoticeAssumption ==
    /\ {UsageLimit, UsageWarn, LastMonth} \subseteq Nat
    /\ 0 < UsageWarn /\ UsageWarn < UsageLimit

VARIABLES
    current,       \* the month
    used,          \* month -> the counter
    peak,          \* month -> the most that has been charged
    usage,         \* Usage -> [at, month: it was added to, ratio: of the quota]
    lastNotified,  \* month -> the ratio last notified
    notices,       \* decided notices in order: [type, month]
    straddled      \* months in which calls of an earlier one decided

noticeVars == <<current, used, peak, usage, lastNotified, notices, straddled>>

Months == 0 .. LastMonth

NoticeInit ==
    /\ current = 0
    /\ used = [m \in Months |-> 0] /\ peak = used /\ lastNotified = used
    /\ usage = [c \in Usage |-> [at |-> "new", month |-> 0, ratio |-> 0]]
    /\ notices = <<>> /\ straddled = {}

\* TryConsume up to the comparison: the ratio is that of the sum.
TryConsume(c) ==
    LET new == used[current] + 1  charged == new <= UsageLimit
    IN  /\ usage[c].at = "new"
        /\ used' = [used EXCEPT ![current] = new]
        /\ peak' = [peak EXCEPT ![current] = IF charged /\ new > @ THEN new ELSE @]
        /\ usage' = [usage EXCEPT ![c] =
              [at |-> IF charged THEN "charged" ELSE "beyond", month |-> current, ratio |-> new]]
        /\ UNCHANGED <<current, lastNotified, notices, straddled>>

\* A call over the quota is taken back from the counter it was added to; its ratio is
\* then 1.
TakeBack(c) ==
    /\ usage[c].at = "beyond"
    /\ used' = [used EXCEPT ![usage[c].month] = @ - 1]
    /\ usage' = [usage EXCEPT ![c].at = "refused", ![c].ratio = UsageLimit]
    /\ UNCHANGED <<current, peak, lastNotified, notices, straddled>>

\* Mutant of shouldNotify: the last ratio is not looked at for the warning.
shouldNotifyAgain(m, ratio) ==
    CASE ratio >= UsageLimit /\ lastNotified[m] < UsageLimit -> <<"quota_exceeded">>
      [] ratio >= UsageWarn /\ ratio < UsageLimit -> <<"quota_warning">>
      [] OTHER -> <<>>

\* shouldNotify: the type of the notice, if there is to be one.
shouldNotify(m, ratio) ==
    CASE ratio >= UsageLimit /\ lastNotified[m] < UsageLimit -> <<"quota_exceeded">>
      [] ratio >= UsageWarn /\ ratio < UsageLimit /\ lastNotified[m] < UsageWarn ->
            <<"quota_warning">>
      [] OTHER -> <<>>

\* maybeNotify, in the month it now is; a call that was refused ends here.
maybeNotify(c) ==
    LET types == shouldNotify(current, usage[c].ratio)
    IN  /\ usage[c].at \in {"charged", "refused"}
        /\ usage' = [usage EXCEPT ![c].at = IF @ = "charged" THEN "running" ELSE "over"]
        /\ notices' = notices \o [i \in DOMAIN types |->
              [type |-> types[i], month |-> current]]
        /\ lastNotified' = [lastNotified EXCEPT ![current] =
              IF types = <<>> THEN @ ELSE usage[c].ratio]
        /\ straddled' = straddled \cup ({current} \ {usage[c].month})
        /\ UNCHANGED <<current, used, peak>>

\* The tool returns; an error gives the call back.  Notices are not taken back.
Served(c) ==
    /\ usage[c].at = "running"
    /\ usage' = [usage EXCEPT ![c].at = "over"]
    /\ \/ UNCHANGED used
       \/ used' = [used EXCEPT ![current] = @ - 1]
    /\ UNCHANGED <<current, peak, lastNotified, notices, straddled>>

MonthEnds ==
    /\ current < LastMonth /\ current' = current + 1
    /\ UNCHANGED <<used, peak, usage, lastNotified, notices, straddled>>

NoticeNext ==
    \/ \E c \in Usage : TryConsume(c) \/ TakeBack(c) \/ maybeNotify(c) \/ Served(c)
    \/ MonthEnds

NoticeSpec == NoticeInit /\ [][NoticeNext]_noticeVars

NoticeTypeOK ==
    /\ current \in Months /\ used \in [Months -> Int] /\ peak \in [Months -> Nat]
    /\ lastNotified \in [Months -> Nat] /\ straddled \subseteq Months
    /\ usage \in [Usage -> [at : {"new", "charged", "beyond", "refused", "running", "over"},
                            month : Months, ratio : Int]]
    /\ notices \in Seq([type : {"quota_warning", "quota_exceeded"}, month : Months])

Noticed(types, m) == {i \in DOMAIN notices : notices[i].type \in types /\ notices[i].month = m}

\* Of calls that reach a threshold at the same time one causes the notice: in a month
\* there is at most one warning and one notice that the quota is used up, never the
\* warning last; a call that reached a threshold and decided in its own month
\* leaves its notice behind; and unless a call of the month before decided in this
\* one, what a notice says of the month has been so.
NoticesOnce ==
    \A m \in Months :
        /\ Cardinality(Noticed({"quota_warning"}, m)) <= 1
        /\ Cardinality(Noticed({"quota_exceeded"}, m)) <= 1
        /\ \A i \in Noticed({"quota_warning"}, m), j \in Noticed({"quota_exceeded"}, m) : i < j
        /\ \A c \in Usage :
              usage[c].at \in {"running", "over"} /\ usage[c].month = m /\ current = m =>
                  /\ usage[c].ratio = UsageLimit => Noticed({"quota_exceeded"}, m) # {}
                  /\ usage[c].ratio >= UsageWarn =>
                        Noticed({"quota_warning", "quota_exceeded"}, m) # {}
        /\ m \notin straddled =>
              /\ Noticed({"quota_exceeded"}, m) # {} => peak[m] = UsageLimit
              /\ Noticed({"quota_warning"}, m) # {} => peak[m] >= UsageWarn

\* The monthly quota is kept (QuotaKept), and told of once (NoticesOnce).
QuotaSound == QuotaKept /\ NoticesOnce
=============================================================================
