------------------------------ MODULE MCBQ25895 ------------------------------
(***************************************************************************)
(* BQ25895 with the configuration of packages/power.yaml and lambdas that  *)
(* go beyond the schema: an input current whose quotient is 256, a charge  *)
(* current above the clamp, and the ADC switched off behind update().      *)
(***************************************************************************)
EXTENDS BQ25895

YamlLimits == [input |-> 500, voltage |-> 4208, charge |-> 1024, precharge |-> 128]
YamlSwitches == [s \in Switches |-> s # "led"]
LambdaLimits == {<<"input", 12900>>, <<"charge", 9000>>}
LambdaSwitches == {<<"adc", FALSE>>, <<"enable", FALSE>>}
==============================================================================
