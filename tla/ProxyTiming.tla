---------------------------- MODULE ProxyTiming ----------------------------
(***************************************************************************)
(* The gateway's configuration of what takes time in a request             *)
(* (sano-shield-proxy/src/config/environment.ts), the pauses between the   *)
(* attempts (upstream/upstream-client.ts), and how long all of them take.  *)
(***************************************************************************)
EXTENDS Integers

CONSTANTS Ttl,          \* TOKEN_MAPPING_TTL_SECONDS
          Timeout,      \* PROXY_UPSTREAM_TIMEOUT_MS, of one attempt
          RetryMax,     \* PROXY_UPSTREAM_RETRY_MAX
          BackoffUnit,  \* the pause after the first attempt
          Begun         \* when the n-th attempt begins at the latest

\* The code waits 200 * 2^attempt ms, its attempts counted from 0.
Backoff(n) == BackoffUnit * 2 ^ (n - 1)

Attempts == 1 .. RetryMax + 1

ASSUME ProxyAssumption ==
  /\ Ttl \in Nat \ {0} /\ Timeout \in Nat \ {0} /\ RetryMax \in Nat
  /\ \A n \in Attempts : Backoff(n) \in Nat
  /\ Begun \in [Attempts -> Nat] /\ Begun[1] = 0
  /\ \A m, n \in Attempts : m < n => Begun[m] + Timeout + Backoff(m) <= Begun[n]

LongestForward == Begun[RetryMax + 1] + Timeout
=============================================================================
