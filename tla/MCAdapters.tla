----------------------------- MODULE MCAdapters -----------------------------
(***************************************************************************)
(* Values of Adapters for TLC: a function with its role next to a bucket   *)
(* with its distribution; a server with two security groups, one of them   *)
(* adopted; a folder beside one whose name it begins with.                 *)
(***************************************************************************)
EXTENDS Adapters, Sequences, FiniteSets, TLC

RoleAndBucket == <<"IAM_ROLE", "LAMBDA_FUNCTION", "S3_BUCKET", "CLOUDFRONT_DISTRIBUTION">>
RoleAndBucketEdges == {<<1, 2>>, <<3, 4>>}
RoleAndBucketFields ==
    <<{"roleName", "trustedService"}, {"functionName", "roleArn", "handler", "runtime"},
      {"bucketName", "encryption", "versioning"}, {"bucketName"}>>

TwoGroups == <<"SECURITY_GROUP", "EC2_INSTANCE", "SECURITY_GROUP">>
TwoGroupsEdges == {<<1, 2>>, <<3, 2>>}
TwoGroupsFields ==
    <<{"groupName", "description", "vpcId"}, {"imageId", "instanceType", "securityGroupIds"},
      {"mode", "groupId", "groupName"}>>

SomeServices == {"LAMBDA_FUNCTION", "ECR_REPOSITORY", "SNS_TOPIC", "SQS_QUEUE", "EC2_INSTANCE", "S3_BUCKET"}
=============================================================================
