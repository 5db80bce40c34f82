---------------------------- MODULE MCAdmission ----------------------------
(* Settings and charges for the model-checking runs of Admission.          *)
EXTENDS Admission, TLC

\* Token limits alone, for the precision of the TPM window.
TokenLimits == {[Unlimited EXCEPT !.tpm = 3]}

\* No limit, one permit, two permits, and a key that expires.
PermitLimits ==
  {Unlimited,
   [Unlimited EXCEPT !.conc = 1],
   [Unlimited EXCEPT !.conc = 2, !.expires = 0]}
PermitCharges == {NoCharge}

\* Both rate limits at once; a daily token budget; a monthly budget in money.
WindowLimits ==
  {[Unlimited EXCEPT !.rpm = 2, !.tpm = 2],
   [Unlimited EXCEPT !.tokens = 2],
   [Unlimited EXCEPT !.usd = 1, !.period = "monthly"]}

\* Charges in both currencies.
MixedCharges == {[tok |-> 1, usd |-> 0, cny |-> 1], [tok |-> 2, usd |-> 1, cny |-> 0]}

HandlersAlike == Permutations(Reqs)
=============================================================================
