---------------------------- MODULE MCQueryGuard ----------------------------
\* Three sessions: two prompts of the user with a cron job's and a teammate's,
\* and two in which one input makes way for a slash command or a notice.
EXTENDS QueryGuard

MCKindings ==
    {<<"prompt", "prompt", "meta", "mail">>, <<"prompt", "prompt", "local", "meta">>,
     <<"prompt", "notice", "local", "meta">>}

=============================================================================
