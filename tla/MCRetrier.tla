------------------------------ MODULE MCRetrier ------------------------------
(* Instances of Retrier for TLC. *)
EXTENDS Retrier

\* createReleasePR: New(380s, WithBackoffFactor(1.5), WithMaxRetries(15, 30s)); unit 10 s
PullRequest == [policy |-> "maxRetries", maxRetries |-> 15, backOffPeriod |-> 3,
                factor |-> <<3, 2>>, timeout |-> 38]
\* the git client: NewWithMaxRetries(5, 5s), no timeout within reach; unit 5 s
Git == [policy |-> "maxRetries", maxRetries |-> 5, backOffPeriod |-> 1,
        factor |-> NoFactor, timeout |-> 1000000]
\* a factor below one: the first wait is cut to zero
Halved == [policy |-> "maxRetries", maxRetries |-> 9, backOffPeriod |-> 2,
           factor |-> <<1, 2>>, timeout |-> 9]
\* New(timeout): the default policy
Default == [policy |-> "zeroWait", maxRetries |-> 0, backOffPeriod |-> 0,
            factor |-> NoFactor, timeout |-> 7]
\* the first call asks no policy
Never == [policy |-> "maxRetries", maxRetries |-> 0, backOffPeriod |-> 1,
          factor |-> NoFactor, timeout |-> 9]

OnePullRequest == {PullRequest}
AllRetriers == {PullRequest, Git, Halved, Default, Never}
=============================================================================
