------------------------------- MODULE MCPlan -------------------------------
(* Reports of two causes for Planning. *)
EXTENDS Planning

Causes == {"technical", "metadata"}

Results ==
    { [status |-> "VERIFIED", reason |-> NULL],
      [status |-> "USER_ATTESTED", reason |-> NULL],
      [status |-> "UNVERIFIED", reason |-> "requires_runtime"],
      [status |-> "UNVERIFIED", reason |-> "still_blocked"],
      [status |-> "FORBIDDEN_TO_CLAIM", reason |-> NULL] }

AVerifications == UNION {[ids -> Results] : ids \in SUBSET Causes}

Cause(id, status, runtime, confirmation) ==
    [id |-> id, status |-> status, runtime |-> runtime, confirmation |-> confirmation]

ACauseSets ==
    { {Cause("metadata", "CONFIRMED", FALSE, FALSE)},
      {Cause("metadata", "CONTRADICTED", FALSE, FALSE)},
      {Cause("metadata", "LIKELY", FALSE, TRUE), Cause("technical", "UNKNOWN", TRUE, FALSE)} }

ADrafts ==
    {NULL} \cup [id : {"reply"}, ready : BOOLEAN,
                 claims : {{"VERIFIED"}, {"VERIFIED", "FORBIDDEN_TO_CLAIM"}}, body : {"a"}]

ABodies == {"b"}

AAudits == {{}, {"stale"}, {"blocked_findings"}, {"privacy_contradictions"}}

Whole(build) == [NoIds EXCEPT !["app_id"] = "app", !["version"] = "2.0.0",
                              !["build_id"] = build, !["submission_id"] = "s1"]

\* submission and asc sections: complete, shadowed by another build, or short of an id
ASectionLists ==
    { <<Whole("200"), NoIds>>,
      <<[NoIds EXCEPT !["build_id"] = "201"], Whole("200")>>,
      <<[Whole("200") EXCEPT !["submission_id"] = NULL], NoIds>> }
=============================================================================
