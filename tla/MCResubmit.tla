----------------------------- MODULE MCResubmit -----------------------------
(* Small reports and instances of Resubmit for TLC. *)
EXTENDS Resubmit

Section(build) ==
    [app_id |-> "app", version |-> "2.0.0", build_id |-> build, submission_id |-> "submission"]

\* fixtures/resubmit/resubmit_ready_verified
ReadyReport ==
    [ candidate       |-> "YES",
      verification    |-> [rc_metadata |-> [status |-> "VERIFIED", reason |-> NULL]],
      causes          |-> {[id |-> "rc_metadata", status |-> "LIKELY", runtime |-> FALSE,
                            confirmation |-> TRUE]},
      draft           |-> [id |-> "reply", ready |-> TRUE, claims |-> {"VERIFIED"}, body |-> "fixed"],
      audit           |-> {},
      sections        |-> <<Section("200")>>,
      report_id       |-> "recovery",
      plan_id         |-> NULL,
      evidence_digest |-> NULL ]

\* The same rejection after another edit of the reply.
ReplyEdited == [ReadyReport EXCEPT !.draft.body = "fixed again"]

\* fixtures/resubmit/resubmit_blocked_unverified: a recheck found the cause again.
BlockedReport ==
    [ReadyReport EXCEPT !.candidate = "NO",
                        !.verification = [rc_metadata |-> [status |-> "UNVERIFIED",
                                                           reason |-> "still_blocked"]],
                        !.draft.ready = FALSE,
                        !.draft.claims = {"UNVERIFIED"}]

\* A report that carries its own evidence_digest, before and after that edit.
PinnedReport == [ReadyReport EXCEPT !.evidence_digest = "evidence"]
PinnedReplyEdited == [ReplyEdited EXCEPT !.evidence_digest = "evidence"]

NoReports == {}
ThreeReports == {PinnedReport, ReplyEdited, BlockedReport}
PinnedReplies == {PinnedReport, PinnedReplyEdited}
OneReport == {ReadyReport}
=============================================================================
