----------------------------- MODULE Attachments -----------------------------
(***************************************************************************)
(* The attachment rules that the contract package gives to client and      *)
(* server: the types of nodes and which may be joined by an edge.          *)
(***************************************************************************)

AwsService ==
    {"S3_BUCKET", "CLOUDFRONT_DISTRIBUTION", "EC2_INSTANCE", "KEY_PAIR",
     "SECURITY_GROUP", "IAM_ROLE", "LAMBDA_FUNCTION", "DYNAMODB_TABLE",
     "SQS_QUEUE", "SNS_TOPIC", "ECR_REPOSITORY"}

canConnectResources(s, t) ==
    <<s, t>> \in {<<"KEY_PAIR", "EC2_INSTANCE">>, <<"SECURITY_GROUP", "EC2_INSTANCE">>,
                  <<"IAM_ROLE", "LAMBDA_FUNCTION">>, <<"S3_BUCKET", "CLOUDFRONT_DISTRIBUTION">>}
=============================================================================
