----------------------------- MODULE TransferApi -----------------------------
(***************************************************************************)
(* The interface a provider of the transfer service implements: the        *)
(* operations of the class TransferApi, the method that handles each and   *)
(* the parameters that have no default, and the errors the service         *)
(* declares (aws/api/transfer).                                            *)
(***************************************************************************)
EXTENDS FiniteSets

Op(operation, function, required) ==
  [operation |-> operation, function |-> function, required |-> required]

CreatePartners ==
  {Op("CreateAccess", "create_access", {"role", "server_id", "external_id"}),
   Op("CreateAgreement", "create_agreement", {"server_id", "local_profile_id", "partner_profile_id", "access_role"}),
   Op("CreateConnector", "create_connector", {"access_role"}),
   Op("CreateProfile", "create_profile", {"as2_id", "profile_type"})}

CreateServers ==
  {Op("CreateServer", "create_server", {}),
   Op("CreateUser", "create_user", {"role", "server_id", "user_name"}),
   Op("CreateWebApp", "create_web_app", {"identity_provider_details"}),
   Op("CreateWorkflow", "create_workflow", {"steps"})}

DeleteAccesses ==
  {Op("DeleteAccess", "delete_access", {"server_id", "external_id"}),
   Op("DeleteAgreement", "delete_agreement", {"agreement_id", "server_id"}),
   Op("DeleteCertificate", "delete_certificate", {"certificate_id"}),
   Op("DeleteConnector", "delete_connector", {"connector_id"}),
   Op("DeleteHostKey", "delete_host_key", {"server_id", "host_key_id"}),
   Op("DeleteProfile", "delete_profile", {"profile_id"}),
   Op("DeleteServer", "delete_server", {"server_id"}),
   Op("DeleteSshPublicKey", "delete_ssh_public_key", {"server_id", "ssh_public_key_id", "user_name"})}

DeleteUsers ==
  {Op("DeleteUser", "delete_user", {"server_id", "user_name"}),
   Op("DeleteWebApp", "delete_web_app", {"web_app_id"}),
   Op("DeleteWebAppCustomization", "delete_web_app_customization", {"web_app_id"}),
   Op("DeleteWorkflow", "delete_workflow", {"workflow_id"})}

DescribeAccesses ==
  {Op("DescribeAccess", "describe_access", {"server_id", "external_id"}),
   Op("DescribeAgreement", "describe_agreement", {"agreement_id", "server_id"}),
   Op("DescribeCertificate", "describe_certificate", {"certificate_id"}),
   Op("DescribeConnector", "describe_connector", {"connector_id"}),
   Op("DescribeExecution", "describe_execution", {"execution_id", "workflow_id"}),
   Op("DescribeHostKey", "describe_host_key", {"server_id", "host_key_id"}),
   Op("DescribeProfile", "describe_profile", {"profile_id"}),
   Op("DescribeSecurityPolicy", "describe_security_policy", {"security_policy_name"})}

DescribeServers ==
  {Op("DescribeServer", "describe_server", {"server_id"}),
   Op("DescribeUser", "describe_user", {"server_id", "user_name"}),
   Op("DescribeWebApp", "describe_web_app", {"web_app_id"}),
   Op("DescribeWebAppCustomization", "describe_web_app_customization", {"web_app_id"}),
   Op("DescribeWorkflow", "describe_workflow", {"workflow_id"})}

ImportOperations ==
  {Op("ImportCertificate", "import_certificate", {"usage", "certificate"}),
   Op("ImportHostKey", "import_host_key", {"server_id", "host_key_body"}),
   Op("ImportSshPublicKey", "import_ssh_public_key", {"server_id", "ssh_public_key_body", "user_name"})}

ListAccesses ==
  {Op("ListAccesses", "list_accesses", {"server_id"}),
   Op("ListAgreements", "list_agreements", {"server_id"}),
   Op("ListCertificates", "list_certificates", {}), Op("ListConnectors", "list_connectors", {}),
   Op("ListExecutions", "list_executions", {"workflow_id"}),
   Op("ListFileTransferResults", "list_file_transfer_results", {"connector_id", "transfer_id"}),
   Op("ListHostKeys", "list_host_keys", {"server_id"})}

ListProfiles ==
  {Op("ListProfiles", "list_profiles", {}),
   Op("ListSecurityPolicies", "list_security_policies", {}),
   Op("ListServers", "list_servers", {}),
   Op("ListTagsForResource", "list_tags_for_resource", {"arn"}),
   Op("ListUsers", "list_users", {"server_id"}), Op("ListWebApps", "list_web_apps", {}),
   Op("ListWorkflows", "list_workflows", {})}

StartTransfers ==
  {Op("SendWorkflowStepState", "send_workflow_step_state", {"workflow_id", "execution_id", "token", "status"}),
   Op("StartDirectoryListing", "start_directory_listing", {"connector_id", "remote_directory_path", "output_directory_path"}),
   Op("StartFileTransfer", "start_file_transfer", {"connector_id"}),
   Op("StartRemoteDelete", "start_remote_delete", {"connector_id", "delete_path"})}

StartServers ==
  {Op("StartRemoteMove", "start_remote_move", {"connector_id", "source_path", "target_path"}),
   Op("StartServer", "start_server", {"server_id"}),
   Op("StopServer", "stop_server", {"server_id"}),
   Op("TagResource", "tag_resource", {"arn", "tags"}),
   Op("TestConnection", "test_connection", {"connector_id"})}

TagOperations ==
  {Op("TestIdentityProvider", "test_identity_provider", {"server_id", "user_name"}),
   Op("UntagResource", "untag_resource", {"arn", "tag_keys"}),
   Op("UpdateAccess", "update_access", {"server_id", "external_id"}),
   Op("UpdateAgreement", "update_agreement", {"agreement_id", "server_id"})}

UpdateServers ==
  {Op("UpdateCertificate", "update_certificate", {"certificate_id"}),
   Op("UpdateConnector", "update_connector", {"connector_id"}),
   Op("UpdateHostKey", "update_host_key", {"server_id", "host_key_id", "description"}),
   Op("UpdateProfile", "update_profile", {"profile_id"}),
   Op("UpdateServer", "update_server", {"server_id"})}

UpdateUsers ==
  {Op("UpdateUser", "update_user", {"server_id", "user_name"}),
   Op("UpdateWebApp", "update_web_app", {"web_app_id"}),
   Op("UpdateWebAppCustomization", "update_web_app_customization", {"web_app_id"})}

TransferOperations ==
  UNION {CreatePartners, CreateServers, DeleteAccesses, DeleteUsers, DescribeAccesses,
         DescribeServers, ImportOperations, ListAccesses, ListProfiles, StartTransfers,
         StartServers, TagOperations, UpdateServers, UpdateUsers}

(* The declared errors: all of them are answered with status 400. *)
DeclaredErrors ==
  {"AccessDeniedException", "ConflictException", "InternalServiceError", "InvalidNextTokenException",
   "InvalidRequestException", "ResourceExistsException", "ResourceNotFoundException",
   "ServiceUnavailableException", "ThrottlingException"}
=============================================================================
